---------------------------- MODULE Spec2Model ----------------------------
(***************************************************************************)
(* Model of the trade context recorder (core/performance/trade_logger.py)  *)
(* and of the performance analyzer (core/performance/analyzer.py) over the *)
(* SQLite store of core/performance/database.py, of the regime classifier  *)
(* (core/performance/regime.py), and of the crossing indicator and the     *)
(* entry and exit signals (core/indicators.py, core/signals.py), whose     *)
(* series are sequences of floats, one per candle.                         *)
(*                                                                         *)
(* A nullable column holds NULL (the empty sequence) or <<v>>; a NOT NULL  *)
(* column holds the bare value.  Timestamps are ISO strings of one format, *)
(* whose order is the order of time: a timestamp is modelled by its rank.  *)
(* Prices are drawn from small numbers for which the float quotient        *)
(* (pnl / entry_price) * 100 is exact.  created_at is not modelled (no     *)
(* operation reads it).  Arguments are drawn by their declared types: a    *)
(* timestamp argument is a str, never None; a str filter may be the empty  *)
(* string; an indicator or regime dict may lack keys.  The statistics of   *)
(* the analyzer are computed on rationals and rounded as round() does; for *)
(* the values drawn here no quotient lies halfway between two roundings,   *)
(* where the float and the rational could part.                            *)
(***************************************************************************)
EXTENDS Integers, Sequences, FiniteSets, TLC

VARIABLES
    trade_log,          \* table trade_log: sequence of rows, in id order
    regime_snapshots,   \* table regime_snapshots: sequence of rows, in id order
    pc,                 \* per recorder connection: position inside log_exit
    pend,               \* per recorder connection: the locals of a running log_exit
    call,               \* the last call that returned: operation and arguments
    ret,                \* the value that call returned
    conn                \* per component: its _conn and the connections it has opened

vars == <<trade_log, regime_snapshots, pc, pend, call, ret, conn>>

---------------------------------------------------------------------------
(* Bounds *)

MaxRows == 2          \* rows of trade_log
MaxSnapshots == 2     \* rows of regime_snapshots
MaxOpens == 2         \* connections a component opens
MaxTrades == 4        \* rows of trade_log when statistics are computed
MaxRecent == 3        \* rows of trade_log when the latest trades are listed
MaxHistory == 3       \* observations in a bb_width_history
MaxIsolated == 3      \* rows of trade_log when two strategies share the store
MaxCandles == 3       \* candles of a series whose crossings are looked for
MaxSignalCandles == 2 \* candles of the series the signals are computed over

---------------------------------------------------------------------------
(* Values *)

NULL == <<>>
Some(v) == <<v>>

\* dict.get(key): the value, or None when the key is absent
Get(d, k) == IF k \in DOMAIN d THEN Some(d[k]) ELSE NULL

Digit == <<"0", "1", "2", "3", "4", "5", "6", "7", "8", "9">>

RECURSIVE NatToStr(_)
NatToStr(n) == IF n < 10 THEN Digit[n + 1]
               ELSE NatToStr(n \div 10) \o Digit[(n % 10) + 1]

\* str(trade_id): a str is returned as it is, an int as its decimal digits
Str(x) == IF x.kind = "int" THEN NatToStr(x.int) ELSE x.str

Loggers == {1, 2}

\* the PerformanceAnalyzer, next to the TradeLogger instances
Analyzer == 3
Components == Loggers \cup {Analyzer}

\* self._conn = None: handle 0; the k-th connection the component opened: handle k
NoConn == [handle |-> 0, opened |-> 0]

\* faulty variant: a connection is opened for every operation
GetConnEveryTime(cn, c) ==
    [cn EXCEPT ![c] = [handle |-> @.opened + 1, opened |-> @.opened + 1]]

\* _get_conn: open a connection if there is none, and use it
GetConn(cn, c) ==
    [cn EXCEPT ![c] = IF @.handle = 0
                      THEN [handle |-> @.opened + 1, opened |-> @.opened + 1]
                      ELSE @]

\* no log_exit running on a connection
NoPending == [op |-> "none"]

\* call before the first call; tick alternates from call to call, so that a
\* call repeating the previous one is a step of its own
NoCall == [op |-> "none", tick |-> FALSE]

---------------------------------------------------------------------------
(* Inputs: the arguments the calls are made with *)

TradeIdInputs == { [kind |-> "int", int |-> 1],
                   [kind |-> "str", str |-> "2"] }

PairInputs == {"BTC/USDT"}
StrategyInputs == {"momentum_rsi_bb"}
EntryTimeInputs == {1}
ExitTimeInputs == {2}
EntryPriceInputs == {4}
EntryPriceArgInputs == {0, 4}    \* the entry_price argument of log_exit
ExitPriceInputs == {6}
ExitReasonInputs == {"roi"}
DurationInputs == {60}

FullIndicators == [rsi |-> 45, tema |-> 100, bb_percent |-> 50,
                   bb_width |-> 4, adx |-> 25]
EntryIndicatorInputs == { FullIndicators }
ExitIndicatorInputs == { [rsi |-> 65, adx |-> 30] }

LowRanging == [volatility |-> "low", trend |-> "ranging",
               combined |-> "low_ranging"]
SnapshotRegimeInputs == { LowRanging }

HighStrongTrend == [volatility |-> "high", trend |-> "strong_trend",
                    combined |-> "high_strong_trend"]
RegimeInputs == { LowRanging, HighStrongTrend }

---------------------------------------------------------------------------
(* Store *)

IsOpen(r) == r.exit_time = NULL

\* INSERT INTO trade_log (...) VALUES (...): the columns not named are NULL
NewTradeRow(id, trade_id, pair, strategy, entry_time, entry_price, indicators, regime) ==
    [ id |-> id,
      trade_id |-> Str(trade_id),
      pair |-> pair,
      strategy |-> strategy,
      entry_time |-> entry_time,
      entry_price |-> entry_price,
      entry_rsi |-> Get(indicators, "rsi"),
      entry_tema |-> Get(indicators, "tema"),
      entry_bb_percent |-> Get(indicators, "bb_percent"),
      entry_bb_width |-> Get(indicators, "bb_width"),
      entry_adx |-> Get(indicators, "adx"),
      entry_volatility_regime |-> Get(regime, "volatility"),
      entry_trend_regime |-> Get(regime, "trend"),
      entry_regime |-> Get(regime, "combined"),
      exit_time |-> NULL,
      exit_price |-> NULL,
      exit_reason |-> NULL,
      exit_rsi |-> NULL,
      exit_tema |-> NULL,
      exit_bb_percent |-> NULL,
      exit_bb_width |-> NULL,
      exit_adx |-> NULL,
      exit_volatility_regime |-> NULL,
      exit_trend_regime |-> NULL,
      exit_regime |-> NULL,
      pnl_absolute |-> NULL,
      pnl_percent |-> NULL,
      duration_minutes |-> NULL,
      regime_changed |-> NULL ]

\* faulty variant: the id is the number of rows already stored
NextIdReuse(table) == IF table = <<>> THEN 1 ELSE Len(table)

\* AUTOINCREMENT: one more than the largest id ever used (rows are never deleted)
NextId(table) == Len(table) + 1

Init ==
    /\ trade_log = <<>>
    /\ regime_snapshots = <<>>
    /\ pc = [l \in Loggers |-> "idle"]
    /\ pend = [l \in Loggers |-> NoPending]
    /\ call = NoCall
    /\ ret = NULL
    /\ conn = [c \in Components |-> NoConn]


---------------------------------------------------------------------------
(* TradeLogger.log_entry *)

Recorder == 1

\* log_entry: one INSERT and a commit; returns cursor.lastrowid
LogEntry(l, trade_id, pair, strategy, entry_time, entry_price, indicators, regime) ==
    /\ pc[l] = "idle"
    /\ conn' = GetConn(conn, l)
    /\ trade_log' = Append(trade_log,
                           NewTradeRow(NextId(trade_log), trade_id, pair,
                                       strategy, entry_time, entry_price,
                                       indicators, regime))
    /\ call' = [op |-> "log_entry", trade_id |-> Str(trade_id), tick |-> ~call.tick]
    /\ ret' = Some(NextId(trade_log))
    /\ UNCHANGED <<regime_snapshots, pc, pend>>

---------------------------------------------------------------------------
(* TradeLogger.log_exit *)

\* pnl_absolute = exit_price - entry_price, entry_price being the argument
PnlAbsolute(exit_price, entry_price) == exit_price - entry_price

\* pnl_percent = (pnl_absolute / entry_price) * 100 if entry_price else 0
PnlPercent(pnl_absolute, entry_price) ==
    IF entry_price # 0 THEN (pnl_absolute * 100) \div entry_price ELSE 0

\* Faulty variant: the SELECT without its WHERE clause, the last row of any trade
SelectLastRowOfAny(log, trade_id) == Len(log)

\* SELECT entry_regime FROM trade_log WHERE trade_id = ? ORDER BY id DESC LIMIT 1
\* the index of the row fetched, 0 when fetchone() gives None
SelectLastRow(log, trade_id) ==
    LET matching == {i \in DOMAIN log : log[i].trade_id = trade_id}
    IN  IF matching = {} THEN 0
        ELSE CHOOSE i \in matching : \A j \in matching : log[j].id <= log[i].id

\* regime_changed = 1 if row["entry_regime"] != regime.get("combined") else 0
RegimeChanged(row, regime) ==
    IF row.entry_regime # Get(regime, "combined") THEN 1 ELSE 0

\* the arguments and locals of log_exit before its SELECT
ExitLocals(trade_id, exit_time, exit_price, exit_reason, indicators, regime, entry_price, duration_minutes) ==
    [ trade_id |-> Str(trade_id),
      exit_time |-> exit_time,
      exit_price |-> exit_price,
      exit_reason |-> exit_reason,
      indicators |-> indicators,
      regime |-> regime,
      entry_price |-> entry_price,
      duration_minutes |-> duration_minutes,
      pnl_absolute |-> PnlAbsolute(exit_price, entry_price),
      pnl_percent |-> PnlPercent(PnlAbsolute(exit_price, entry_price),
                                 entry_price) ]

\* Faulty variant: a SET clause that leaves exit_time out
SetExitNoTime(r, x, regime_changed) ==
    [ r EXCEPT
        !.exit_price = Some(x.exit_price),
        !.exit_reason = Some(x.exit_reason),
        !.exit_regime = Get(x.regime, "combined"),
        !.pnl_absolute = Some(x.pnl_absolute),
        !.pnl_percent = Some(x.pnl_percent),
        !.duration_minutes = Some(x.duration_minutes),
        !.regime_changed = Some(regime_changed) ]

\* UPDATE trade_log SET ... : the SET clause applied to one row
SetExit(r, x, regime_changed) ==
    [ r EXCEPT
        !.exit_time = Some(x.exit_time),
        !.exit_price = Some(x.exit_price),
        !.exit_reason = Some(x.exit_reason),
        !.exit_rsi = Get(x.indicators, "rsi"),
        !.exit_tema = Get(x.indicators, "tema"),
        !.exit_bb_percent = Get(x.indicators, "bb_percent"),
        !.exit_bb_width = Get(x.indicators, "bb_width"),
        !.exit_adx = Get(x.indicators, "adx"),
        !.exit_volatility_regime = Get(x.regime, "volatility"),
        !.exit_trend_regime = Get(x.regime, "trend"),
        !.exit_regime = Get(x.regime, "combined"),
        !.pnl_absolute = Some(x.pnl_absolute),
        !.pnl_percent = Some(x.pnl_percent),
        !.duration_minutes = Some(x.duration_minutes),
        !.regime_changed = Some(regime_changed) ]

\* Faulty variant: the WHERE clause without "AND exit_time IS NULL"
ExitWhereAnyState(r, trade_id) == r.trade_id = trade_id

\* WHERE trade_id = ? AND exit_time IS NULL
ExitWhere(r, trade_id) == r.trade_id = trade_id /\ r.exit_time = NULL

\* Faulty variant: an UPDATE that also stores the entry_price argument
UpdateExitAndEntryPrice(log, x, regime_changed) ==
    [ i \in DOMAIN log |->
        IF ExitWhere(log[i], x.trade_id)
        THEN [ SetExit(log[i], x, regime_changed)
                 EXCEPT !.entry_price = x.entry_price ]
        ELSE log[i] ]

\* Faulty variant: only the newest row the WHERE clause selects is updated
UpdateExitNewestOnly(log, x, regime_changed) ==
    [ i \in DOMAIN log |->
        IF /\ ExitWhere(log[i], x.trade_id)
           /\ \A j \in DOMAIN log : ExitWhere(log[j], x.trade_id) => j <= i
        THEN SetExit(log[i], x, regime_changed)
        ELSE log[i] ]

\* UPDATE trade_log SET ... WHERE ... : every row the WHERE clause selects
UpdateExit(log, x, regime_changed) ==
    [ i \in DOMAIN log |->
        IF ExitWhere(log[i], x.trade_id)
        THEN SetExit(log[i], x, regime_changed)
        ELSE log[i] ]

\* log_exit run by one connection with no other connection active
LogExit(l, trade_id, exit_time, exit_price, exit_reason, indicators, regime, entry_price, duration_minutes) ==
    LET x == ExitLocals(trade_id, exit_time, exit_price, exit_reason,
                        indicators, regime, entry_price, duration_minutes)
        i == SelectLastRow(trade_log, x.trade_id)
    IN  /\ pc[l] = "idle"
        /\ conn' = GetConn(conn, l)
        /\ call' = [op |-> "log_exit", trade_id |-> x.trade_id, tick |-> ~call.tick]
        /\ IF i = 0
           THEN /\ ret' = Some(FALSE)
                /\ UNCHANGED trade_log
           ELSE /\ trade_log' = UpdateExit(trade_log, x,
                                           RegimeChanged(trade_log[i], regime))
                /\ ret' = Some(TRUE)
        /\ UNCHANGED <<regime_snapshots, pc, pend>>

---------------------------------------------------------------------------
(* TradeLogger.log_regime_snapshot *)

NewSnapshotRow(id, pair, timestamp, regime, indicators) ==
    [ id |-> id,
      timestamp |-> timestamp,
      pair |-> pair,
      volatility_regime |-> Get(regime, "volatility"),
      trend_regime |-> Get(regime, "trend"),
      regime |-> Get(regime, "combined"),
      bb_width |-> Get(indicators, "bb_width"),
      adx |-> Get(indicators, "adx"),
      rsi |-> Get(indicators, "rsi") ]

\* faulty variant: an upsert that keeps one row per pair
LogRegimeSnapshotReplacing(l, pair, timestamp, regime, indicators) ==
    /\ pc[l] = "idle"
    /\ conn' = GetConn(conn, l)
    /\ regime_snapshots' =
          SelectSeq(regime_snapshots, LAMBDA r : r.pair # pair)
          \o << NewSnapshotRow(NextId(regime_snapshots), pair, timestamp,
                               regime, indicators) >>
    /\ call' = [op |-> "log_regime_snapshot", tick |-> ~call.tick]
    /\ ret' = NULL
    /\ UNCHANGED <<trade_log, pc, pend>>

LogRegimeSnapshot(l, pair, timestamp, regime, indicators) ==
    /\ pc[l] = "idle"
    /\ conn' = GetConn(conn, l)
    /\ regime_snapshots' = Append(regime_snapshots,
                                  NewSnapshotRow(NextId(regime_snapshots), pair,
                                                 timestamp, regime, indicators))
    /\ call' = [op |-> "log_regime_snapshot", tick |-> ~call.tick]
    /\ ret' = NULL
    /\ UNCHANGED <<trade_log, pc, pend>>

---------------------------------------------------------------------------
(* The recorder used as section 5 of the specification describes it: one   *)
(* connection, one call at a time.                                         *)

DoLogEntry ==
    /\ Len(trade_log) < MaxRows
    /\ \E trade_id \in TradeIdInputs, pair \in PairInputs,
       strategy \in StrategyInputs, entry_time \in EntryTimeInputs,
       entry_price \in EntryPriceInputs, indicators \in EntryIndicatorInputs,
       regime \in RegimeInputs :
        LogEntry(Recorder, trade_id, pair, strategy, entry_time, entry_price,
                 indicators, regime)

DoLogExit ==
    \E trade_id \in TradeIdInputs, exit_time \in ExitTimeInputs,
       exit_price \in ExitPriceInputs, exit_reason \in ExitReasonInputs,
       indicators \in ExitIndicatorInputs, regime \in RegimeInputs,
       entry_price \in EntryPriceArgInputs,
       duration_minutes \in DurationInputs :
        LogExit(Recorder, trade_id, exit_time, exit_price, exit_reason,
                indicators, regime, entry_price, duration_minutes)

DoLogRegimeSnapshot ==
    /\ Len(regime_snapshots) < MaxSnapshots
    /\ \E pair \in PairInputs, timestamp \in EntryTimeInputs,
       regime \in SnapshotRegimeInputs, indicators \in EntryIndicatorInputs :
        LogRegimeSnapshot(Recorder, pair, timestamp, regime, indicators)

Next == DoLogEntry \/ DoLogExit \/ DoLogRegimeSnapshot

Spec == Init /\ [][Next]_vars

---------------------------------------------------------------------------
(* Two recorders, each with its own connection to the same database file.  *)
(* A statement is atomic; log_exit is its SELECT, then its UPDATE and       *)
(* commit, and the other connection may commit in between.                  *)

\* log_exit up to "if row is None: return False"
LogExitSelect(l, trade_id, exit_time, exit_price, exit_reason, indicators, regime, entry_price, duration_minutes) ==
    LET x == ExitLocals(trade_id, exit_time, exit_price, exit_reason,
                        indicators, regime, entry_price, duration_minutes)
        i == SelectLastRow(trade_log, x.trade_id)
    IN  /\ pc[l] = "idle"
        /\ conn' = GetConn(conn, l)
        /\ IF i = 0
           THEN /\ call' = [op |-> "log_exit", trade_id |-> x.trade_id, tick |-> ~call.tick]
                /\ ret' = Some(FALSE)
                /\ UNCHANGED <<pc, pend>>
           ELSE /\ pc' = [pc EXCEPT ![l] = "update"]
                /\ pend' = [pend EXCEPT ![l] =
                              [op |-> "log_exit", x |-> x,
                               regime_changed |->
                                   RegimeChanged(trade_log[i], regime)]]
                /\ UNCHANGED <<call, ret>>
        /\ UNCHANGED <<trade_log, regime_snapshots>>

\* log_exit from its UPDATE to "return True"
LogExitUpdate(l) ==
    /\ pc[l] = "update"
    /\ trade_log' = UpdateExit(trade_log, pend[l].x, pend[l].regime_changed)
    /\ pc' = [pc EXCEPT ![l] = "idle"]
    /\ pend' = [pend EXCEPT ![l] = NoPending]
    /\ call' = [op |-> "log_exit", trade_id |-> pend[l].x.trade_id, tick |-> ~call.tick]
    /\ ret' = Some(TRUE)
    /\ UNCHANGED <<regime_snapshots, conn>>

\* inputs of the two-connection runs: log_entry with one regime, log_exit
\* with every regime and entry_price argument
ConcEntryRegimeInputs == { LowRanging }

ConcLogEntry ==
    /\ Len(trade_log) < MaxRows
    /\ \E l \in Loggers, trade_id \in TradeIdInputs, pair \in PairInputs,
       strategy \in StrategyInputs, entry_time \in EntryTimeInputs,
       entry_price \in EntryPriceInputs,
       indicators \in EntryIndicatorInputs,
       regime \in ConcEntryRegimeInputs :
        LogEntry(l, trade_id, pair, strategy, entry_time, entry_price,
                 indicators, regime)

ConcLogExitSelect ==
    \E l \in Loggers, trade_id \in TradeIdInputs,
       exit_time \in ExitTimeInputs, exit_price \in ExitPriceInputs,
       exit_reason \in ExitReasonInputs, indicators \in ExitIndicatorInputs,
       regime \in RegimeInputs, entry_price \in EntryPriceArgInputs,
       duration_minutes \in DurationInputs :
        LogExitSelect(l, trade_id, exit_time, exit_price, exit_reason,
                      indicators, regime, entry_price, duration_minutes)

ConcLogExitUpdate == \E l \in Loggers : LogExitUpdate(l)

NextConc == ConcLogEntry \/ ConcLogExitSelect \/ ConcLogExitUpdate

SpecConc == Init /\ [][NextConc]_vars

---------------------------------------------------------------------------
(* Properties of the recorder *)

EntryFields(r) ==
    << r.trade_id, r.pair, r.strategy, r.entry_time, r.entry_price,
       r.entry_rsi, r.entry_tema, r.entry_bb_percent, r.entry_bb_width,
       r.entry_adx, r.entry_volatility_regime, r.entry_trend_regime,
       r.entry_regime >>

ExitFields(r) ==
    << r.exit_time, r.exit_price, r.exit_reason,
       r.exit_rsi, r.exit_tema, r.exit_bb_percent, r.exit_bb_width, r.exit_adx,
       r.exit_volatility_regime, r.exit_trend_regime, r.exit_regime,
       r.pnl_absolute, r.pnl_percent, r.duration_minutes, r.regime_changed >>

NoExitFields == [k \in 1..15 |-> NULL]

Rows == DOMAIN trade_log

OpenRowsOf(log, trade_id) ==
    {i \in DOMAIN log : log[i].trade_id = trade_id /\ IsOpen(log[i])}

\* the step taken is the return of a log_exit call
IsLogExitStep == call'.tick # call.tick /\ call'.op = "log_exit"

\* C1: a closed record stays closed, and none of its exit or derived fields is
\* changed by any later log_entry, log_exit or log_regime_snapshot.
C1_ClosedIsTerminal ==
    [][ \A i \in Rows :
          ~IsOpen(trade_log[i]) =>
              /\ i \in DOMAIN trade_log'
              /\ ~IsOpen(trade_log'[i])
              /\ ExitFields(trade_log'[i]) = ExitFields(trade_log[i]) ]_vars

\* C1: two records of one trade_id closed by two different log_exit calls: the
\* older one kept its own exit fields through the later log_exit of that id.
C1_Witness ==
    \E i, j \in Rows :
        /\ i < j
        /\ trade_log[i].trade_id = trade_log[j].trade_id
        /\ ~IsOpen(trade_log[i])
        /\ ~IsOpen(trade_log[j])
        /\ ExitFields(trade_log[i]) # ExitFields(trade_log[j])

\* C2: a successful log_exit(trade_id) that finds open records of trade_id
\* closes the one with the highest id and leaves every other row unchanged.
C2_ClosesExactlyOne ==
    [][ (IsLogExitStep /\ ret' = Some(TRUE)) =>
          LET open == OpenRowsOf(trade_log, call'.trade_id)
          IN  open # {} =>
                \A i \in Rows :
                    IF \A j \in open : j <= i /\ i \in open
                    THEN ~IsOpen(trade_log'[i])
                    ELSE trade_log'[i] = trade_log[i] ]_vars

\* C3: each trade_id has at most one open record.
C3_AtMostOneOpen ==
    \A i, j \in Rows :
        (/\ trade_log[i].trade_id = trade_log[j].trade_id
         /\ IsOpen(trade_log[i])
         /\ IsOpen(trade_log[j])) => i = j

\* C4: log_exit(trade_id) with no open record of trade_id returns false and
\* writes nothing.
C4_FalseWithoutOpenRecord ==
    [][ (IsLogExitStep /\ OpenRowsOf(trade_log, call'.trade_id) = {}) =>
          (ret' = Some(FALSE) /\ trade_log' = trade_log) ]_vars

\* C5: log_exit on a trade_id that no log_entry has stored returns false and
\* leaves both tables as they were.
C5_UnknownTradeIdUnchanged ==
    [][ (IsLogExitStep
         /\ \A i \in Rows : trade_log[i].trade_id # call'.trade_id) =>
          (/\ ret' = Some(FALSE)
           /\ trade_log' = trade_log
           /\ regime_snapshots' = regime_snapshots) ]_vars

\* C5: log_exit returned false for a trade_id absent from a store that holds
\* records of another trade_id.
C5_Witness ==
    /\ call.op = "log_exit"
    /\ ret = Some(FALSE)
    /\ trade_log # <<>>
    /\ \A i \in Rows : trade_log[i].trade_id # call.trade_id

\* C7: the entry fields of a record never change once log_entry has written
\* them, and no record disappears.
C7_EntryFieldsImmutable ==
    [][ \A i \in Rows :
          /\ i \in DOMAIN trade_log'
          /\ EntryFields(trade_log'[i]) = EntryFields(trade_log[i]) ]_vars

\* C7: a record went through log_exit with an entry_price argument other than
\* the stored entry price, after a later log_entry and a log_regime_snapshot.
C7_Witness ==
    /\ regime_snapshots # <<>>
    /\ \E i, j \in Rows :
        /\ i < j
        /\ ~IsOpen(trade_log[i])
        /\ trade_log[i].pnl_absolute
             # Some(trade_log[i].exit_price[1] - trade_log[i].entry_price)

\* C8: an open record has every exit field and derived field NULL.
C8_OpenHasNoExitFields ==
    \A i \in Rows :
        IsOpen(trade_log[i]) => ExitFields(trade_log[i]) = NoExitFields

\* C8: an open record next to a closed record of the same trade_id.
C8_Witness ==
    \E i, j \in Rows :
        /\ trade_log[i].trade_id = trade_log[j].trade_id
        /\ ~IsOpen(trade_log[i])
        /\ IsOpen(trade_log[j])

\* C9: for every closed record pnl_absolute = exit_price - stored entry_price
\* and pnl_percent = pnl_absolute / entry_price * 100, or 0 for entry_price 0.
C9_PnlFromStoredEntryPrice ==
    \A i \in Rows :
        ~IsOpen(trade_log[i]) =>
            LET r == trade_log[i]
                pnl == r.exit_price[1] - r.entry_price
            IN  /\ r.pnl_absolute = Some(pnl)
                /\ r.pnl_percent = Some(IF r.entry_price = 0 THEN 0
                                         ELSE (pnl * 100) \div r.entry_price)

\* C10: for every closed record regime_changed is 1 exactly when its exit
\* regime label differs from the entry regime label stored in that record.
C10_RegimeChangedOfOwnRecord ==
    \A i \in Rows :
        ~IsOpen(trade_log[i]) =>
            (trade_log[i].regime_changed = Some(1)
                <=> trade_log[i].exit_regime # trade_log[i].entry_regime)

\* what a running log_exit writes into the exit and derived columns
CallExitFields(p) ==
    << Some(p.x.exit_time), Some(p.x.exit_price), Some(p.x.exit_reason),
       Get(p.x.indicators, "rsi"), Get(p.x.indicators, "tema"),
       Get(p.x.indicators, "bb_percent"), Get(p.x.indicators, "bb_width"),
       Get(p.x.indicators, "adx"),
       Get(p.x.regime, "volatility"), Get(p.x.regime, "trend"),
       Get(p.x.regime, "combined"),
       Some(p.x.pnl_absolute), Some(p.x.pnl_percent),
       Some(p.x.duration_minutes), Some(p.regime_changed) >>

\* C6: with log_exit calls of two connections interleaved, a row changes only
\* when it is open and an UPDATE closes it, all of its exit and derived fields
\* then being those of that one call; a row already closed is not written.
C6_ConcurrentCloseKeepsFirst ==
    [][ \A i \in Rows :
          \/ trade_log'[i] = trade_log[i]
          \/ /\ IsOpen(trade_log[i])
             /\ ~IsOpen(trade_log'[i])
             /\ EntryFields(trade_log'[i]) = EntryFields(trade_log[i])
             /\ \E l \in Loggers :
                   /\ pc[l] = "update"
                   /\ pc'[l] = "idle"
                   /\ pend[l].x.trade_id = trade_log[i].trade_id
                   /\ ExitFields(trade_log'[i]) = CallExitFields(pend[l]) ]_vars

\* C6: both connections have looked up the single open record of one trade_id
\* and each is about to run its UPDATE, with different values.
C6_Witness ==
    /\ pc[1] = "update"
    /\ pc[2] = "update"
    /\ pend[1].x.trade_id = pend[2].x.trade_id
    /\ CallExitFields(pend[1]) # CallExitFields(pend[2])
    /\ \E i \in Rows :
          /\ OpenRowsOf(trade_log, pend[1].x.trade_id) = {i}
          /\ \A j \in Rows :
                trade_log[j].trade_id = trade_log[i].trade_id => j = i

----------------------------------------------------------------------------
(* log_entry                                                               *)

IsLogEntryStep == call'.tick # call.tick /\ call'.op = "log_entry"

\* C11: every log_entry call, whether or not its trade_id is already stored,
\* adds exactly one row to trade_log, open and with no exit field set, leaves
\* every other row as it was, and returns the id of the new row, which is
\* positive and differs from the id of every row stored (and so returned)
\* before.
C11_LogEntryAppendsOne ==
    [][IsLogEntryStep =>
        /\ Len(trade_log') = Len(trade_log) + 1
        /\ \A i \in Rows : trade_log'[i] = trade_log[i]
        /\ LET r == trade_log'[Len(trade_log')]
           IN  /\ r.trade_id = call'.trade_id
               /\ IsOpen(r)
               /\ ExitFields(r) = NoExitFields
               /\ ret' = Some(r.id)
               /\ r.id > 0
               /\ \A i \in Rows : trade_log[i].id # r.id]_vars

\* a log_entry returned for a trade_id that an open row already carried
C11_Witness ==
    /\ call.op = "log_entry"
    /\ Len(trade_log) = 2
    /\ trade_log[1].trade_id = trade_log[2].trade_id
    /\ IsOpen(trade_log[1])
    /\ IsOpen(trade_log[2])
    /\ ret = Some(trade_log[2].id)

----------------------------------------------------------------------------
(* find_open_trade                                                         *)

\* faulty variant: the WHERE clause without "exit_time IS NULL"
FindOpenWhereAnyState(r, pair) == r.pair = pair

\* WHERE pair = ? AND exit_time IS NULL
FindOpenWhere(r, pair) == r.pair = pair /\ IsOpen(r)

\* ORDER BY entry_time DESC LIMIT 1: the rows that can come first. entry_time
\* is TEXT and is compared as such; rows with equal entry_time come in an
\* order that SQLite does not fix.
FindOpenFirst(log, pair) ==
    {i \in DOMAIN log :
        /\ FindOpenWhere(log[i], pair)
        /\ \A j \in DOMAIN log :
              FindOpenWhere(log[j], pair) => log[j].entry_time <= log[i].entry_time}

FindOpenTrade(l, pair) ==
    /\ pc[l] = "idle"
    /\ conn' = GetConn(conn, l)
    /\ call' = [op |-> "find_open_trade", pair |-> pair, tick |-> ~call.tick]
    /\ IF FindOpenFirst(trade_log, pair) = {}
       THEN ret' = NULL
       ELSE \E i \in FindOpenFirst(trade_log, pair) :
               ret' = Some(trade_log[i].trade_id)
    /\ UNCHANGED <<trade_log, regime_snapshots, pc, pend>>

\* The recorder with several pairs and entry times.
FindPairInputs == {"BTC/USDT", "ETH/USDT"}
FindEntryTimeInputs == {1, 2}

FindLogEntry ==
    /\ Len(trade_log) < MaxRows
    /\ \E trade_id \in TradeIdInputs, pair \in FindPairInputs,
       strategy \in StrategyInputs, entry_time \in FindEntryTimeInputs,
       entry_price \in EntryPriceInputs, indicators \in EntryIndicatorInputs,
       regime \in SnapshotRegimeInputs :
        LogEntry(Recorder, trade_id, pair, strategy, entry_time, entry_price,
                 indicators, regime)

FindLogExit ==
    \E trade_id \in TradeIdInputs, exit_time \in ExitTimeInputs,
       exit_price \in ExitPriceInputs, exit_reason \in ExitReasonInputs,
       indicators \in ExitIndicatorInputs, regime \in SnapshotRegimeInputs,
       entry_price \in EntryPriceInputs, duration_minutes \in DurationInputs :
        LogExit(Recorder, trade_id, exit_time, exit_price, exit_reason,
                indicators, regime, entry_price, duration_minutes)

DoFindOpenTrade == \E pair \in FindPairInputs : FindOpenTrade(Recorder, pair)

NextFind == FindLogEntry \/ FindLogExit \/ DoFindOpenTrade

SpecFind == Init /\ [][NextFind]_vars

IsFindOpenTradeStep == call'.tick # call.tick /\ call'.op = "find_open_trade"

\* C12: find_open_trade(pair) returns none exactly when the pair has no open
\* row; otherwise it returns the trade_id of an open row of that pair whose
\* entry_time is the greatest among the pair's open rows. The result is fixed
\* by the pair's open rows alone, and the store is left as it was.
C12_FindOpenTradeLatest ==
    [][IsFindOpenTradeStep =>
        LET open == {i \in Rows : /\ trade_log[i].pair = call'.pair
                                  /\ trade_log[i].exit_time = NULL}
        IN  /\ (ret' = NULL) <=> (open = {})
            /\ open # {} =>
                  \E i \in open :
                     /\ ret' = Some(trade_log[i].trade_id)
                     /\ \A j \in open :
                           trade_log[j].entry_time <= trade_log[i].entry_time
            /\ trade_log' = trade_log]_vars

\* two open rows of the pair, the one stored first carrying the later
\* entry_time, and the call answered with that one
C12_Witness ==
    /\ call.op = "find_open_trade"
    /\ Len(trade_log) = 2
    /\ \A i \in Rows : trade_log[i].pair = call.pair /\ IsOpen(trade_log[i])
    /\ trade_log[1].entry_time > trade_log[2].entry_time
    /\ trade_log[1].trade_id # trade_log[2].trade_id
    /\ ret = Some(trade_log[1].trade_id)

----------------------------------------------------------------------------
(* PerformanceAnalyzer: numbers                                            *)

\* A float is modelled by the rational n / d (d > 0) that it approximates.
\* A value that went through round(v, 4) is the integer v * 10^4, one that
\* went through round(v, 2) the integer v * 10^2.
Abs(x) == IF x < 0 THEN -x ELSE x

RECURSIVE GCD(_, _)
GCD(a, b) == IF b = 0 THEN a ELSE GCD(b, a % b)

\* n / d in lowest terms
Rat(n, d) == [n |-> n \div GCD(Abs(n), d), d |-> d \div GCD(Abs(n), d)]
RAdd(a, b) == Rat(a.n * b.d + b.n * a.d, a.d * b.d)
RSub(a, b) == Rat(a.n * b.d - b.n * a.d, a.d * b.d)
RMul(a, b) == Rat(a.n * b.n, a.d * b.d)

\* round(): the nearest integer to n / d, a half going to the even neighbour
RoundDiv(n, d) ==
    LET q == n \div d
        r == n % d
    IN  IF 2 * r < d THEN q
        ELSE IF 2 * r > d THEN q + 1
        ELSE IF q % 2 = 0 THEN q ELSE q + 1

Round4(x) == RoundDiv(x.n * 10000, x.d)
Round2(x) == RoundDiv(x.n * 100, x.d)

\* float("inf") and the finite values of profit_factor, after round(v, 4)
Infinite == [inf |-> TRUE, val |-> 0]
Finite(v) == [inf |-> FALSE, val |-> v]

RECURSIVE SumSeq(_)
SumSeq(s) == IF s = <<>> THEN 0 ELSE Head(s) + SumSeq(Tail(s))

----------------------------------------------------------------------------
(* PerformanceAnalyzer: summary and by_regime                              *)

\* if strategy: / if regime: -- None and the empty string do not filter
Truthy(arg) == arg # NULL /\ arg # Some("")

\* faulty variant: the WHERE clause without "entry_regime = ?"
SummaryWhereAnyRegime(r, strategy, regime) ==
    /\ r.exit_time # NULL
    /\ Truthy(strategy) => r.strategy = strategy[1]

\* WHERE exit_time IS NOT NULL [AND strategy = ?] [AND entry_regime = ?]
SummaryWhere(r, strategy, regime) ==
    /\ r.exit_time # NULL
    /\ Truthy(strategy) => r.strategy = strategy[1]
    /\ Truthy(regime) => r.entry_regime = regime

\* faulty variant: a trade that broke even counted among the wins
IsWinOrFlat(p) == p >= 0

\* wins = [p for p in pnls if p > 0]
IsWin(p) == p > 0

\* losses = [p for p in pnls if p <= 0]
IsLoss(p) == p <= 0

\* faulty variant: the ratio taken the wrong way round
ProfitFactorInverted(gross_wins, gross_losses) ==
    IF gross_wins > 0 THEN Finite(Round4(Rat(gross_losses, gross_wins)))
    ELSE IF gross_losses > 0 THEN Infinite
    ELSE Finite(0)

\* faulty variant: 0 whenever the losses sum to zero
ProfitFactorNeverInfinite(gross_wins, gross_losses) ==
    IF gross_losses > 0 THEN Finite(Round4(Rat(gross_wins, gross_losses)))
    ELSE Finite(0)

\* gross_wins / gross_losses if gross_losses > 0
\* else float("inf") if gross_wins > 0 else 0.0, then round(profit_factor, 4)
ProfitFactor(gross_wins, gross_losses) ==
    IF gross_losses > 0 THEN Finite(Round4(Rat(gross_wins, gross_losses)))
    ELSE IF gross_wins > 0 THEN Infinite
    ELSE Finite(0)

\* win_rate, avg_win and avg_loss of summary(), before rounding
WinRate(pnls) ==
    IF Len(pnls) > 0 THEN Rat(Len(SelectSeq(pnls, IsWin)), Len(pnls)) ELSE Rat(0, 1)
AvgWin(pnls) ==
    LET wins == SelectSeq(pnls, IsWin)
    IN  IF wins # <<>> THEN Rat(SumSeq(wins), Len(wins)) ELSE Rat(0, 1)
AvgLoss(pnls) ==
    LET losses == SelectSeq(pnls, IsLoss)
    IN  IF losses # <<>> THEN Rat(SumSeq(losses), Len(losses)) ELSE Rat(0, 1)

\* faulty variant: the two averages are added without their weights
ExpectancyUnweighted(pnls) == RAdd(AvgWin(pnls), AvgLoss(pnls))

\* expectancy = (win_rate * avg_win) + ((1 - win_rate) * avg_loss)
Expectancy(pnls) ==
    RAdd(RMul(WinRate(pnls), AvgWin(pnls)),
         RMul(RSub(Rat(1, 1), WinRate(pnls)), AvgLoss(pnls)))

\* the dict returned when no row matches
ZeroSummary ==
    [ total_trades |-> 0, wins |-> 0, losses |-> 0, win_rate |-> 0,
      avg_win_pct |-> 0, avg_loss_pct |-> 0, expectancy_pct |-> 0,
      profit_factor |-> Finite(0), avg_duration_min |-> 0 ]

\* summary() from the rows fetched on
SummaryOfRows(rows) ==
    IF rows = <<>> THEN ZeroSummary
    ELSE
    LET pnls == [i \in DOMAIN rows |-> rows[i].pnl_percent[1]]
        timed == SelectSeq(rows, LAMBDA r : r.duration_minutes # NULL)
        durations == [i \in DOMAIN timed |-> timed[i].duration_minutes[1]]
        wins == SelectSeq(pnls, IsWin)
        losses == SelectSeq(pnls, IsLoss)
        total == Len(pnls)
        win_count == Len(wins)
        loss_count == Len(losses)
        win_rate == WinRate(pnls)
        avg_win == AvgWin(pnls)
        avg_loss == AvgLoss(pnls)
        expectancy == Expectancy(pnls)
        gross_wins == SumSeq(wins)
        gross_losses == Abs(SumSeq(losses))
        avg_duration == IF durations # <<>>
                        THEN Rat(SumSeq(durations), Len(durations))
                        ELSE Rat(0, 1)
    IN  [ total_trades |-> total,
          wins |-> win_count,
          losses |-> loss_count,
          win_rate |-> Round4(win_rate),
          avg_win_pct |-> Round4(avg_win),
          avg_loss_pct |-> Round4(avg_loss),
          expectancy_pct |-> Round4(expectancy),
          profit_factor |-> ProfitFactor(gross_wins, gross_losses),
          avg_duration_min |-> Round2(avg_duration) ]

\* summary(strategy, regime) on a table
SummaryOf(log, strategy, regime) ==
    SummaryOfRows(SelectSeq(log, LAMBDA r : SummaryWhere(r, strategy, regime)))

Summary(strategy, regime) ==
    /\ conn' = GetConn(conn, Analyzer)
    /\ call' = [op |-> "summary", strategy |-> strategy, regime |-> regime,
                tick |-> ~call.tick]
    /\ ret' = Some(SummaryOf(trade_log, strategy, regime))
    /\ UNCHANGED <<trade_log, regime_snapshots, pc, pend>>

\* faulty variant: the open rows too
ByRegimeWhereOpenToo(r, strategy) ==
    /\ r.entry_regime # NULL
    /\ Truthy(strategy) => r.strategy = strategy[1]

\* WHERE exit_time IS NOT NULL AND entry_regime IS NOT NULL [AND strategy = ?]
ByRegimeWhere(r, strategy) ==
    /\ r.exit_time # NULL
    /\ r.entry_regime # NULL
    /\ Truthy(strategy) => r.strategy = strategy[1]

\* SELECT DISTINCT entry_regime
DistinctRegimes(log, strategy) ==
    {log[i].entry_regime[1] : i \in {j \in DOMAIN log : ByRegimeWhere(log[j], strategy)}}

\* faulty variant: summary called for the regime without the strategy
ByRegimeOfAnyStrategy(log, strategy) ==
    [regime_name \in DistinctRegimes(log, strategy) |->
        SummaryOf(log, NULL, Some(regime_name))]

\* result[regime_name] = self.summary(strategy=strategy, regime=regime_name)
ByRegimeOf(log, strategy) ==
    [regime_name \in DistinctRegimes(log, strategy) |->
        SummaryOf(log, strategy, Some(regime_name))]

ByRegime(strategy) ==
    /\ conn' = GetConn(conn, Analyzer)
    /\ call' = [op |-> "by_regime", strategy |-> strategy, tick |-> ~call.tick]
    /\ ret' = Some(ByRegimeOf(trade_log, strategy))
    /\ UNCHANGED <<trade_log, regime_snapshots, pc, pend>>

----------------------------------------------------------------------------
(* PerformanceAnalyzer: detect_decay and recent_trades                     *)

\* ORDER BY exit_time DESC over the rows with index in S: every order of the
\* indices that does not put an earlier exit_time before a later one. Rows
\* with equal exit_time come in an order that SQLite does not fix.
RECURSIVE ByExitTimeDesc(_, _)
ByExitTimeDesc(log, S) ==
    IF S = {} THEN {<<>>}
    ELSE LET latest == {i \in S : \A j \in S :
                           log[i].exit_time[1] >= log[j].exit_time[1]}
         IN  UNION {{<<i>> \o f : f \in ByExitTimeDesc(log, S \ {i})} : i \in latest}

Min(a, b) == IF a < b THEN a ELSE b

\* faulty variant: the LIMIT clause is ignored
LimitAll(n, len) == len

\* LIMIT n of len rows: a negative LIMIT is no limit
Limit(n, len) == IF n < 0 THEN len ELSE Min(n, len)

\* faulty variant: a trade that broke even is left out of the losses
ComputeSummaryStrictLosses(pnls) ==
    IF pnls = <<>>
    THEN [ total_trades |-> 0, win_rate |-> 0, avg_win_pct |-> 0,
           avg_loss_pct |-> 0, expectancy_pct |-> 0,
           profit_factor |-> Finite(0) ]
    ELSE
    LET wins == SelectSeq(pnls, IsWin)
        losses == SelectSeq(pnls, LAMBDA p : p < 0)
        total == Len(pnls)
        win_rate == IF total # 0 THEN Rat(Len(wins), total) ELSE Rat(0, 1)
        avg_win == IF wins # <<>> THEN Rat(SumSeq(wins), Len(wins)) ELSE Rat(0, 1)
        avg_loss == IF losses # <<>> THEN Rat(SumSeq(losses), Len(losses)) ELSE Rat(0, 1)
        expectancy == RAdd(RMul(win_rate, avg_win),
                           RMul(RSub(Rat(1, 1), win_rate), avg_loss))
    IN  [ total_trades |-> total,
          win_rate |-> Round4(win_rate),
          avg_win_pct |-> Round4(avg_win),
          avg_loss_pct |-> Round4(avg_loss),
          expectancy_pct |-> Round4(expectancy),
          profit_factor |-> ProfitFactor(SumSeq(wins), Abs(SumSeq(losses))) ]

\* _compute_summary(pnls)
ComputeSummary(pnls) ==
    IF pnls = <<>>
    THEN [ total_trades |-> 0, win_rate |-> 0, avg_win_pct |-> 0,
           avg_loss_pct |-> 0, expectancy_pct |-> 0,
           profit_factor |-> Finite(0) ]
    ELSE
    LET wins == SelectSeq(pnls, IsWin)
        losses == SelectSeq(pnls, IsLoss)
        total == Len(pnls)
        win_rate == IF total # 0 THEN Rat(Len(wins), total) ELSE Rat(0, 1)
        avg_win == IF wins # <<>> THEN Rat(SumSeq(wins), Len(wins)) ELSE Rat(0, 1)
        avg_loss == IF losses # <<>> THEN Rat(SumSeq(losses), Len(losses)) ELSE Rat(0, 1)
        expectancy == RAdd(RMul(win_rate, avg_win),
                           RMul(RSub(Rat(1, 1), win_rate), avg_loss))
        gross_wins == SumSeq(wins)
        gross_losses == Abs(SumSeq(losses))
    IN  [ total_trades |-> total,
          win_rate |-> Round4(win_rate),
          avg_win_pct |-> Round4(avg_win),
          avg_loss_pct |-> Round4(avg_loss),
          expectancy_pct |-> Round4(expectancy),
          profit_factor |-> ProfitFactor(gross_wins, gross_losses) ]

\* faulty variant: float("inf") compared as if it were 0
BelowOneFinitePart(pf) == pf.val < 10000

\* profit_factor < 1.0 and profit_factor >= 1.0, float("inf") included
BelowOne(pf) == ~pf.inf /\ pf.val < 10000
AtLeastOne(pf) == pf.inf \/ pf.val >= 10000

\* rows[:recent_window]
RecentRows(rows, recent_window) ==
    SubSeq(rows, 1, Min(recent_window, Len(rows)))

\* faulty variant: the baseline starts at the last recent row
BaselineRowsOverlapping(rows, recent_window, baseline_window) ==
    SubSeq(rows, recent_window, Min(recent_window + baseline_window - 1, Len(rows)))

\* rows[recent_window:recent_window + baseline_window]
BaselineRows(rows, recent_window, baseline_window) ==
    SubSeq(rows, recent_window + 1, Min(recent_window + baseline_window, Len(rows)))

\* wr_delta < -0.15, wr_delta the difference of two rounded win rates
WinRateDropped(wr_delta) == wr_delta.n * 100 < -15 * wr_delta.d

\* baseline expectancy_pct > 0 and recent expectancy_pct < 0
ExpectancyTurnedNegative(recent_summary, baseline_summary) ==
    baseline_summary.expectancy_pct > 0 /\ recent_summary.expectancy_pct < 0

\* faulty variant: the baseline profit factor is not looked at
ProfitFactorLow(recent_summary, baseline_summary) ==
    BelowOne(recent_summary.profit_factor)

\* recent profit_factor < 1.0 and baseline profit_factor >= 1.0
ProfitFactorDropped(recent_summary, baseline_summary) ==
    BelowOne(recent_summary.profit_factor) /\ AtLeastOne(baseline_summary.profit_factor)

\* detect_decay from the rows fetched, in the order fetched
DetectDecayOfRows(rows, recent_window, baseline_window) ==
    LET total_needed == recent_window + baseline_window
        recent_rows == RecentRows(rows, recent_window)
        baseline_rows == BaselineRows(rows, recent_window, baseline_window)
        recent_pnls == [i \in DOMAIN recent_rows |-> recent_rows[i].pnl_percent[1]]
        baseline_pnls == [i \in DOMAIN baseline_rows |-> baseline_rows[i].pnl_percent[1]]
        recent_summary == ComputeSummary(recent_pnls)
        baseline_summary == ComputeSummary(baseline_pnls)
        wr_delta == RSub(Rat(recent_summary.win_rate, 10000),
                         Rat(baseline_summary.win_rate, 10000))
        exp_delta == RSub(Rat(recent_summary.expectancy_pct, 10000),
                          Rat(baseline_summary.expectancy_pct, 10000))
        rule1 == WinRateDropped(wr_delta)
        rule2 == ExpectancyTurnedNegative(recent_summary, baseline_summary)
        rule3 == ProfitFactorDropped(recent_summary, baseline_summary)
        reasons == (IF rule1 THEN <<"Win rate dropped">> ELSE <<>>)
                   \o (IF rule2 THEN <<"Expectancy turned negative">> ELSE <<>>)
                   \o (IF rule3 THEN <<"Profit factor dropped below 1.0">> ELSE <<>>)
        decay_detected == rule1 \/ rule2 \/ rule3
    IN  IF Len(rows) < recent_window
        THEN [ has_enough_data |-> FALSE,
               total_closed_trades |-> Len(rows),
               needed |-> total_needed,
               recommendation |-> <<"Need at least", recent_window>> ]
        ELSE IF baseline_pnls = <<>>
        THEN [ has_enough_data |-> FALSE,
               total_closed_trades |-> Len(rows),
               needed |-> total_needed,
               recommendation |-> <<"Need at least", total_needed>> ]
        ELSE [ has_enough_data |-> TRUE,
               total_closed_trades |-> Len(rows),
               recent |-> recent_summary,
               baseline |-> baseline_summary,
               win_rate_delta |-> Round4(wr_delta),
               expectancy_delta |-> Round4(exp_delta),
               decay_detected |-> decay_detected,
               recommendation |-> IF decay_detected
                                  THEN <<"DECAY DETECTED">> \o reasons
                                  ELSE <<"No significant decay detected">> ]

\* faulty variant: the closed rows of every strategy
DecayWhereAnyStrategy(r, strategy) == r.exit_time # NULL

\* WHERE strategy = ? AND exit_time IS NOT NULL
DecayWhere(r, strategy) == r.strategy = strategy /\ r.exit_time # NULL

\* faulty variant: total_closed_trades counts the closed rows of every strategy
DetectDecayOnCountingAll(log, strategy, recent_window, baseline_window) ==
    { [ DetectDecayOfRows([k \in DOMAIN f |-> log[f[k]]], recent_window, baseline_window)
          EXCEPT !.total_closed_trades =
                     Len(SelectSeq(log, LAMBDA r : r.exit_time # NULL)) ] :
        f \in ByExitTimeDesc(log, {i \in DOMAIN log : DecayWhere(log[i], strategy)}) }

\* the reports detect_decay can return on a table: one for each order the
\* query can return the matching rows in
DetectDecayOn(log, strategy, recent_window, baseline_window) ==
    { DetectDecayOfRows([k \in DOMAIN f |-> log[f[k]]], recent_window, baseline_window) :
        f \in ByExitTimeDesc(log, {i \in DOMAIN log : DecayWhere(log[i], strategy)}) }

DetectDecay(strategy, recent_window, baseline_window) ==
    /\ conn' = GetConn(conn, Analyzer)
    /\ call' = [op |-> "detect_decay", strategy |-> strategy,
                recent_window |-> recent_window,
                baseline_window |-> baseline_window, tick |-> ~call.tick]
    /\ \E report \in DetectDecayOn(trade_log, strategy, recent_window, baseline_window) :
          ret' = Some(report)
    /\ UNCHANGED <<trade_log, regime_snapshots, pc, pend>>

\* WHERE exit_time IS NOT NULL [AND strategy = ?]
RecentWhere(r, strategy) ==
    /\ r.exit_time # NULL
    /\ Truthy(strategy) => r.strategy = strategy[1]

\* faulty variant: the rows returned are removed from the table
RecentTradesTaking(n, strategy) ==
    /\ conn' = GetConn(conn, Analyzer)
    /\ call' = [op |-> "recent_trades", n |-> n, strategy |-> strategy,
                tick |-> ~call.tick]
    /\ \E f \in ByExitTimeDesc(trade_log, {i \in Rows : RecentWhere(trade_log[i], strategy)}) :
          /\ ret' = Some([k \in 1..Limit(n, Len(f)) |-> trade_log[f[k]]])
          /\ trade_log' = SelectSeq(trade_log, LAMBDA r : \A k \in 1..Limit(n, Len(f)) : trade_log[f[k]].id # r.id)
    /\ UNCHANGED <<regime_snapshots, pc, pend>>

\* ORDER BY exit_time DESC LIMIT ?, each row as a dict
RecentTrades(n, strategy) ==
    /\ conn' = GetConn(conn, Analyzer)
    /\ call' = [op |-> "recent_trades", n |-> n, strategy |-> strategy,
                tick |-> ~call.tick]
    /\ \E f \in ByExitTimeDesc(trade_log, {i \in Rows : RecentWhere(trade_log[i], strategy)}) :
          ret' = Some([k \in 1..Limit(n, Len(f)) |-> trade_log[f[k]]])
    /\ UNCHANGED <<trade_log, regime_snapshots, pc, pend>>

----------------------------------------------------------------------------
(* The recorder and the analyzer on one store                              *)

StrategyArgs == {NULL, Some("momentum_rsi_bb")}
RegimeArgs == {NULL, Some("low_ranging")}
WindowInputs == {1, 2}
LimitInputs == {1}

AnalyzerLogEntry ==
    /\ Len(trade_log) < MaxRows
    /\ \E trade_id \in TradeIdInputs, pair \in PairInputs,
       strategy \in StrategyInputs, entry_time \in EntryTimeInputs,
       entry_price \in EntryPriceInputs, indicators \in EntryIndicatorInputs,
       regime \in SnapshotRegimeInputs :
        LogEntry(Recorder, trade_id, pair, strategy, entry_time, entry_price,
                 indicators, regime)

AnalyzerLogExit ==
    \E trade_id \in TradeIdInputs, exit_time \in ExitTimeInputs,
       exit_price \in ExitPriceInputs, exit_reason \in ExitReasonInputs,
       indicators \in ExitIndicatorInputs, regime \in SnapshotRegimeInputs,
       entry_price \in EntryPriceInputs, duration_minutes \in DurationInputs :
        LogExit(Recorder, trade_id, exit_time, exit_price, exit_reason,
                indicators, regime, entry_price, duration_minutes)

DoSummary == \E strategy \in StrategyArgs, regime \in RegimeArgs : Summary(strategy, regime)

DoByRegime == \E strategy \in StrategyArgs : ByRegime(strategy)

DoDetectDecay ==
    \E strategy \in StrategyInputs, recent_window \in WindowInputs,
       baseline_window \in WindowInputs :
        DetectDecay(strategy, recent_window, baseline_window)

DoRecentTrades == \E n \in LimitInputs, strategy \in StrategyArgs : RecentTrades(n, strategy)

NextAnalyzer ==
    \/ AnalyzerLogEntry
    \/ AnalyzerLogExit
    \/ DoLogRegimeSnapshot
    \/ DoFindOpenTrade
    \/ DoSummary
    \/ DoByRegime
    \/ DoDetectDecay
    \/ DoRecentTrades

SpecAnalyzer == Init /\ [][NextAnalyzer]_vars

IsSnapshotStep == call'.tick # call.tick /\ call'.op = "log_regime_snapshot"

AnalyzerOps == {"summary", "by_regime", "detect_decay", "recent_trades"}

IsAnalyzerStep == call'.tick # call.tick /\ call'.op \in AnalyzerOps

\* C13: every log_regime_snapshot call appends exactly one row to
\* regime_snapshots and leaves trade_log as it was; and no step of the
\* recorder or of the analyzer removes or changes a snapshot row that is
\* already stored.
C13_SnapshotsOnlyGrow ==
    [][/\ IsSnapshotStep =>
            /\ Len(regime_snapshots') = Len(regime_snapshots) + 1
            /\ trade_log' = trade_log
       /\ \A i \in DOMAIN regime_snapshots :
            /\ i \in DOMAIN regime_snapshots'
            /\ regime_snapshots'[i] = regime_snapshots[i]]_vars

\* a second snapshot was appended next to a stored one, with trades stored
C13_Witness ==
    /\ call.op = "log_regime_snapshot"
    /\ Len(regime_snapshots) = 2
    /\ regime_snapshots[1].id # regime_snapshots[2].id
    /\ trade_log # <<>>

\* C14: a call of summary, by_regime, detect_decay or recent_trades leaves
\* every row of trade_log and of regime_snapshots as it was, and adds none.
C14_AnalyzerReadsOnly ==
    [][IsAnalyzerStep =>
        /\ trade_log' = trade_log
        /\ regime_snapshots' = regime_snapshots]_vars

\* recent_trades returned a closed row, with a snapshot stored
C14_Witness ==
    /\ call.op = "recent_trades"
    /\ ret # Some(<<>>)
    /\ regime_snapshots # <<>>
    /\ \E i \in Rows : IsOpen(trade_log[i])

----------------------------------------------------------------------------
(* Transactions. sqlite3 opens a transaction before an INSERT or UPDATE;   *)
(* what the statement wrote is seen by the other connections from          *)
(* conn.commit() on, all of it at once. A query of the analyzer reads the  *)
(* committed table. SQLite admits one write transaction at a time.         *)

WriteLockFree(l) == \A m \in Loggers \ {l} : pc[m] # "commit"

\* log_entry up to its INSERT, executed and not yet committed
LogEntryInsert(l, trade_id, pair, strategy, entry_time, entry_price, indicators, regime) ==
    /\ pc[l] = "idle"
    /\ WriteLockFree(l)
    /\ conn' = GetConn(conn, l)
    /\ pc' = [pc EXCEPT ![l] = "commit"]
    /\ pend' = [pend EXCEPT ![l] =
                  [op |-> "log_entry",
                   trade_id |-> Str(trade_id),
                   written |-> Append(trade_log,
                                      NewTradeRow(NextId(trade_log), trade_id, pair,
                                                  strategy, entry_time, entry_price,
                                                  indicators, regime)),
                   result |-> Some(NextId(trade_log))]]
    /\ UNCHANGED <<trade_log, regime_snapshots, call, ret>>

\* log_exit: its UPDATE, executed and not yet committed
LogExitExecute(l) ==
    /\ pc[l] = "update"
    /\ WriteLockFree(l)
    /\ pc' = [pc EXCEPT ![l] = "commit"]
    /\ pend' = [pend EXCEPT ![l] =
                  [op |-> "log_exit",
                   trade_id |-> pend[l].x.trade_id,
                   x |-> pend[l].x,
                   regime_changed |-> pend[l].regime_changed,
                   written |-> UpdateExit(trade_log, pend[l].x, pend[l].regime_changed),
                   result |-> Some(TRUE)]]
    /\ UNCHANGED <<trade_log, regime_snapshots, call, ret, conn>>

\* faulty variant: the call returns without conn.commit()
ReturnUncommitted(l) ==
    /\ pc[l] = "commit"
    /\ pc' = [pc EXCEPT ![l] = "idle"]
    /\ pend' = [pend EXCEPT ![l] = NoPending]
    /\ call' = [op |-> pend[l].op, trade_id |-> pend[l].trade_id, tick |-> ~call.tick]
    /\ ret' = pend[l].result
    /\ UNCHANGED <<trade_log, regime_snapshots, conn>>

\* conn.commit() and the return of log_entry or log_exit
CommitAndReturn(l) ==
    /\ pc[l] = "commit"
    /\ trade_log' = pend[l].written
    /\ pc' = [pc EXCEPT ![l] = "idle"]
    /\ pend' = [pend EXCEPT ![l] = NoPending]
    /\ call' = [op |-> pend[l].op, trade_id |-> pend[l].trade_id, tick |-> ~call.tick]
    /\ ret' = pend[l].result
    /\ UNCHANGED <<regime_snapshots, conn>>

TxnLogEntry ==
    /\ Len(trade_log) < MaxRows
    /\ \E trade_id \in TradeIdInputs, pair \in PairInputs,
       strategy \in StrategyInputs, entry_time \in EntryTimeInputs,
       entry_price \in EntryPriceInputs, indicators \in EntryIndicatorInputs,
       regime \in SnapshotRegimeInputs :
        LogEntryInsert(Recorder, trade_id, pair, strategy, entry_time,
                       entry_price, indicators, regime)

TxnLogExitSelect ==
    \E trade_id \in TradeIdInputs, exit_time \in ExitTimeInputs,
       exit_price \in ExitPriceInputs, exit_reason \in ExitReasonInputs,
       indicators \in ExitIndicatorInputs, regime \in RegimeInputs,
       entry_price \in EntryPriceInputs, duration_minutes \in DurationInputs :
        LogExitSelect(Recorder, trade_id, exit_time, exit_price, exit_reason,
                      indicators, regime, entry_price, duration_minutes)

TxnLogExitExecute == LogExitExecute(Recorder)

TxnCommit == CommitAndReturn(Recorder)

NextTxn ==
    \/ TxnLogEntry
    \/ TxnLogExitSelect
    \/ TxnLogExitExecute
    \/ TxnCommit
    \/ DoSummary
    \/ DoRecentTrades

SpecTxn == Init /\ [][NextTxn]_vars

\* exit_time, exit_price, exit_reason and the derived fields are all set
FullyClosed(r) ==
    /\ r.exit_time # NULL
    /\ r.exit_price # NULL
    /\ r.exit_reason # NULL
    /\ r.pnl_absolute # NULL
    /\ r.pnl_percent # NULL
    /\ r.duration_minutes # NULL
    /\ r.regime_changed # NULL

\* C15: whatever the recorder is doing on its connection, the table a query
\* reads holds each row either open with no exit field set or closed with
\* every exit and derived field of one log_exit call; a row changes for the
\* readers only from the first state to the second, in one step; the rows
\* recent_trades returns are such closed rows of the table; and when
\* log_entry or log_exit returns, the table read by every later query holds
\* the row inserted, respectively the rows closed.
C15_ReadersSeeWholeWrites ==
    [][/\ \A i \in DOMAIN trade_log' :
            IF IsOpen(trade_log'[i])
            THEN ExitFields(trade_log'[i]) = NoExitFields
            ELSE FullyClosed(trade_log'[i])
       /\ \A i \in Rows :
            \/ trade_log'[i] = trade_log[i]
            \/ /\ IsOpen(trade_log[i])
               /\ \E l \in Loggers :
                    /\ pc[l] = "commit"
                    /\ pend[l].op = "log_exit"
                    /\ ExitFields(trade_log'[i]) = CallExitFields(pend[l])
       /\ (call'.tick # call.tick /\ call'.op = "recent_trades") =>
            \A k \in DOMAIN ret'[1] :
                /\ \E i \in Rows : ret'[1][k] = trade_log[i]
                /\ FullyClosed(ret'[1][k])
       /\ IsLogEntryStep =>
            /\ Len(trade_log') = Len(trade_log) + 1
            /\ ret' = Some(trade_log'[Len(trade_log')].id)
       /\ (IsLogExitStep /\ ret' = Some(TRUE)) =>
            \A i \in Rows :
                trade_log[i].trade_id = call'.trade_id => ~IsOpen(trade_log'[i])]_vars

\* a query returned while a log_exit had executed its UPDATE and not yet
\* committed it: the row it closes is still open for the reader
C15_Witness ==
    /\ call.op \in {"summary", "recent_trades"}
    /\ pc[Recorder] = "commit"
    /\ pend[Recorder].op = "log_exit"
    /\ \E i \in Rows :
          /\ IsOpen(trade_log[i])
          /\ ~IsOpen(pend[Recorder].written[i])
    /\ \E i \in Rows : ~IsOpen(trade_log[i])

----------------------------------------------------------------------------
(* Connection lifecycle                                                    *)

\* close(): if self._conn: self._conn.close(); self._conn = None
Close(c) ==
    /\ conn' = [conn EXCEPT ![c] = [handle |-> 0, opened |-> @.opened]]
    /\ call' = [op |-> "close", component |-> c, tick |-> ~call.tick]
    /\ ret' = NULL
    /\ UNCHANGED <<trade_log, regime_snapshots, pc, pend>>

\* close() of the recorder or of the analyzer; a component opens at most
\* MaxOpens connections
DoClose ==
    \E c \in {Recorder, Analyzer} :
        /\ conn[c].handle = 0 \/ conn[c].opened < MaxOpens
        /\ Close(c)

NextConn ==
    \/ AnalyzerLogEntry
    \/ AnalyzerLogExit
    \/ DoFindOpenTrade
    \/ DoSummary
    \/ DoClose

SpecConn == Init /\ [][NextConn]_vars

\* the component whose method the call was
CallerOf(c) ==
    IF c.op = "close" THEN c.component
    ELSE IF c.op \in AnalyzerOps THEN Analyzer
    ELSE Recorder

IsCloseStep == call'.tick # call.tick /\ call'.op = "close"

IsStoreOpStep == call'.tick # call.tick /\ call'.op # "close"

\* C16: a component holds no connection before its first store operation;
\* a store operation of a component that holds a connection keeps that very
\* connection, one of a component that holds none opens a connection that
\* was never held before; close() leaves the component without a
\* connection and, when it held none, changes nothing; no call touches the
\* connection of the other component; and a query made on a connection
\* opened after a close() reads all the rows stored before.
C16_ConnectionLifecycle ==
    /\ \A c \in Components : conn[c].handle = 0
    /\ [][/\ \A c \in Components :
               conn'[c] # conn[c] => (call'.tick # call.tick /\ CallerOf(call') = c)
          /\ IsStoreOpStep =>
               LET c == CallerOf(call')
               IN  /\ conn[c].handle # 0 => conn'[c] = conn[c]
                   /\ conn[c].handle = 0 =>
                         /\ conn'[c].handle > conn[c].opened
                         /\ conn'[c].opened = conn'[c].handle
          /\ IsCloseStep =>
               /\ conn'[call'.component].handle = 0
               /\ conn'[call'.component].opened = conn[call'.component].opened
               /\ trade_log' = trade_log
               /\ regime_snapshots' = regime_snapshots
          /\ (call'.tick # call.tick /\ call'.op = "summary"
              /\ call'.strategy = NULL /\ call'.regime = NULL) =>
               ret'[1].total_trades = Cardinality({i \in Rows : ~IsOpen(trade_log[i])})
          /\ (call'.tick # call.tick /\ call'.op = "find_open_trade"
              /\ \E i \in Rows : IsOpen(trade_log[i]) /\ trade_log[i].pair = call'.pair) =>
               ret' # NULL]_vars

\* the analyzer, on the second connection it opened, counts a trade that
\* was stored while it held its first one or none
C16_Witness ==
    /\ call.op = "summary"
    /\ conn[Analyzer].handle = 2
    /\ conn[Recorder].handle = 0
    /\ conn[Recorder].opened = 1
    /\ ret[1].total_trades = 1

----------------------------------------------------------------------------
(* Statistics: trades of one strategy that win, lose or break even         *)

StatsTradeIdInputs == { [kind |-> "str", str |-> "1"] }

\* with an entry price of 4: pnl_percent -50, 0, 25 and 50
StatsExitPriceInputs == {2, 4, 5, 6}

StatsLogEntry ==
    /\ Len(trade_log) < MaxTrades
    /\ \E trade_id \in StatsTradeIdInputs, pair \in PairInputs,
       strategy \in StrategyInputs, entry_time \in EntryTimeInputs,
       entry_price \in EntryPriceInputs, indicators \in EntryIndicatorInputs,
       regime \in SnapshotRegimeInputs :
        LogEntry(Recorder, trade_id, pair, strategy, entry_time, entry_price,
                 indicators, regime)

StatsLogExit ==
    \E trade_id \in StatsTradeIdInputs, exit_time \in ExitTimeInputs,
       exit_price \in StatsExitPriceInputs, exit_reason \in ExitReasonInputs,
       indicators \in ExitIndicatorInputs, regime \in SnapshotRegimeInputs,
       entry_price \in EntryPriceInputs, duration_minutes \in DurationInputs :
        LogExit(Recorder, trade_id, exit_time, exit_price, exit_reason,
                indicators, regime, entry_price, duration_minutes)

StatsSummary == Summary(NULL, NULL)

NextStats == StatsLogEntry \/ StatsLogExit \/ StatsSummary

SpecStats == Init /\ [][NextStats]_vars

IsSummaryStep == call'.tick # call.tick /\ call'.op = "summary"

\* the rows with exit_time set, and their pnl_percent
ClosedRows == {i \in Rows : trade_log[i].exit_time # NULL}
PnlOf(i) == trade_log[i].pnl_percent[1]

\* C17: summary() counts the closed rows and no open one: total_trades is
\* the number of closed rows, wins the number of those with pnl_percent > 0,
\* losses the number of those with pnl_percent <= 0, a trade that broke even
\* included; so wins + losses = total_trades, and win_rate is
\* wins / total_trades as returned, that is to four decimal places (0 when
\* there is no closed row).
C17_SummaryCountsClosed ==
    [][IsSummaryStep =>
        LET s == ret'[1]
        IN  /\ s.total_trades = Cardinality(ClosedRows)
            /\ s.wins = Cardinality({i \in ClosedRows : PnlOf(i) > 0})
            /\ s.losses = Cardinality({i \in ClosedRows : PnlOf(i) <= 0})
            /\ s.wins + s.losses = s.total_trades
            /\ s.total_trades = 0 => s.win_rate = 0
            /\ s.total_trades > 0 =>
                  2 * Abs(s.win_rate * s.total_trades - 10000 * s.wins) <= s.total_trades]_vars

\* summary() over a win, a loss and a trade that broke even, with a fourth
\* trade still open: one win of three
C17_Witness ==
    /\ call.op = "summary"
    /\ Cardinality(ClosedRows) = 3
    /\ Cardinality(Rows) = 4
    /\ \E i \in ClosedRows : PnlOf(i) = 0
    /\ \E i \in ClosedRows : PnlOf(i) < 0
    /\ ret[1].wins = 1
    /\ ret[1].losses = 2
    /\ ret[1].win_rate = 3333

\* the wins and the losses of the closed rows, summed
GrossWins == SumSeq([k \in 1..Len(trade_log) |->
                 IF k \in ClosedRows /\ PnlOf(k) > 0 THEN PnlOf(k) ELSE 0])
GrossLosses == Abs(SumSeq([k \in 1..Len(trade_log) |->
                 IF k \in ClosedRows /\ PnlOf(k) <= 0 THEN PnlOf(k) ELSE 0]))

\* C25: summary() always returns a profit_factor, whatever the closed trades
\* are: gross wins divided by the absolute value of gross losses (to four
\* decimal places) when the losses do not sum to zero; +infinity when there
\* are wins and the losses are empty or sum to zero; 0 when there are neither
\* wins nor non-zero losses. No case divides by zero.
C25_ProfitFactor ==
    [][IsSummaryStep =>
        /\ ret' # NULL
        /\ LET pf == ret'[1].profit_factor
           IN  /\ GrossLosses > 0 =>
                     /\ ~pf.inf
                     /\ 2 * Abs(pf.val * GrossLosses - 10000 * GrossWins) <= GrossLosses
               /\ (GrossLosses = 0 /\ GrossWins > 0) => pf = Infinite
               /\ (GrossLosses = 0 /\ GrossWins = 0) => pf = Finite(0)]_vars

\* summary() over a winning trade and a trade that broke even: a loss is
\* counted, the losses sum to zero, profit_factor is +infinity
C25_Witness ==
    /\ call.op = "summary"
    /\ ret # NULL
    /\ ret[1].wins = 1
    /\ ret[1].losses = 1
    /\ GrossLosses = 0
    /\ ret[1].profit_factor = Infinite

----------------------------------------------------------------------------
(* Filters: trades of two strategies entered in several regimes            *)

FilterStrategyInputs == {"strat_a", "strat_b"}

\* a regime dict without the key "combined": entry_regime is stored as NULL
NoCombined == [volatility |-> "low", trend |-> "ranging"]

FilterRegimeInputs == { LowRanging, HighStrongTrend, NoCombined }

\* the filter arguments: absent, the empty string, or a value
FilterStrategyArgs == {NULL, Some(""), Some("strat_a"), Some("strat_b")}
FilterRegimeArgs == {NULL, Some(""), Some("low_ranging"), Some("high_strong_trend")}

FilterLogEntry ==
    /\ Len(trade_log) < MaxRows
    /\ \E trade_id \in StatsTradeIdInputs, pair \in PairInputs,
       strategy \in FilterStrategyInputs, entry_time \in EntryTimeInputs,
       entry_price \in EntryPriceInputs, indicators \in EntryIndicatorInputs,
       regime \in FilterRegimeInputs :
        LogEntry(Recorder, trade_id, pair, strategy, entry_time, entry_price,
                 indicators, regime)

FilterLogExit ==
    \E trade_id \in StatsTradeIdInputs, exit_time \in ExitTimeInputs,
       exit_price \in ExitPriceInputs, exit_reason \in ExitReasonInputs,
       indicators \in ExitIndicatorInputs, regime \in SnapshotRegimeInputs,
       entry_price \in EntryPriceInputs, duration_minutes \in DurationInputs :
        LogExit(Recorder, trade_id, exit_time, exit_price, exit_reason,
                indicators, regime, entry_price, duration_minutes)

FilterSummary ==
    \E strategy \in FilterStrategyArgs, regime \in FilterRegimeArgs :
        Summary(strategy, regime)

FilterByRegime == \E strategy \in FilterStrategyArgs : ByRegime(strategy)

NextFilter == FilterLogEntry \/ FilterLogExit \/ FilterSummary \/ FilterByRegime

SpecFilter == Init /\ [][NextFilter]_vars

\* a filter argument that was given and is not the empty string
IsNonEmpty(arg) == arg # NULL /\ arg[1] # ""

\* C18 as stated: summary(strategy, regime) counts exactly the closed rows
\* whose strategy equals the strategy given and whose entry_regime equals the
\* regime given, for every filter value that is supplied.
C18_FiltersExactMatch ==
    [][IsSummaryStep =>
        ret'[1].total_trades =
            Cardinality({i \in ClosedRows :
                /\ call'.strategy # NULL => trade_log[i].strategy = call'.strategy[1]
                /\ call'.regime # NULL => trade_log[i].entry_regime = call'.regime})]_vars

\* C18, amended: summary(strategy, regime) counts exactly the closed rows
\* whose strategy equals the strategy given, when that is a non-empty
\* string, and whose entry_regime equals the regime given, when that is a
\* non-empty string; a filter that is absent or the empty string is not
\* applied.
C18_NonEmptyFiltersExactMatch ==
    [][IsSummaryStep =>
        ret'[1].total_trades =
            Cardinality({i \in ClosedRows :
                /\ IsNonEmpty(call'.strategy) => trade_log[i].strategy = call'.strategy[1]
                /\ IsNonEmpty(call'.regime) => trade_log[i].entry_regime = call'.regime})]_vars

\* summary with both filters given counted one of two closed trades of the
\* strategy, the other one having been entered in another regime
C18_Witness ==
    /\ call.op = "summary"
    /\ IsNonEmpty(call.strategy)
    /\ IsNonEmpty(call.regime)
    /\ Cardinality(ClosedRows) = 2
    /\ \A i \in ClosedRows : trade_log[i].strategy = call.strategy[1]
    /\ \E i \in ClosedRows : trade_log[i].entry_regime = call.regime
    /\ \E i \in ClosedRows : trade_log[i].entry_regime \notin {NULL, call.regime}
    /\ ret[1].total_trades = 1

IsByRegimeStep == call'.tick # call.tick /\ call'.op = "by_regime"

\* the closed rows that by_regime(strategy) and summary(strategy) are about
MatchingClosed(strategy) ==
    {i \in ClosedRows : IsNonEmpty(strategy) => trade_log[i].strategy = strategy[1]}

\* the sum of total_trades over the buckets with key in S
RECURSIVE BucketTotal(_, _)
BucketTotal(buckets, S) ==
    IF S = {} THEN 0
    ELSE LET k == CHOOSE k \in S : TRUE
         IN  buckets[k].total_trades + BucketTotal(buckets, S \ {k})

----------------------------------------------------------------------------
(* Decay: winning and losing trades of two strategies                      *)

\* with an entry price of 4: pnl_percent -50 and 50
DecayExitPriceInputs == {2, 6}

DecayLogEntry ==
    /\ Len(trade_log) < MaxRows
    /\ \E trade_id \in StatsTradeIdInputs, pair \in PairInputs,
       strategy \in FilterStrategyInputs, entry_time \in EntryTimeInputs,
       entry_price \in EntryPriceInputs, indicators \in EntryIndicatorInputs,
       regime \in SnapshotRegimeInputs :
        LogEntry(Recorder, trade_id, pair, strategy, entry_time, entry_price,
                 indicators, regime)

DecayLogExit ==
    \E trade_id \in StatsTradeIdInputs, exit_time \in ExitTimeInputs,
       exit_price \in DecayExitPriceInputs, exit_reason \in ExitReasonInputs,
       indicators \in ExitIndicatorInputs, regime \in SnapshotRegimeInputs,
       entry_price \in EntryPriceInputs, duration_minutes \in DurationInputs :
        LogExit(Recorder, trade_id, exit_time, exit_price, exit_reason,
                indicators, regime, entry_price, duration_minutes)

DecayDetectDecay ==
    \E strategy \in FilterStrategyInputs, recent_window \in WindowInputs,
       baseline_window \in WindowInputs :
        DetectDecay(strategy, recent_window, baseline_window)

NextDecay == DecayLogEntry \/ DecayLogExit \/ DecayDetectDecay

SpecDecay == Init /\ [][NextDecay]_vars

IsDetectDecayStep == call'.tick # call.tick /\ call'.op = "detect_decay"

\* the closed rows of a strategy
ClosedOf(strategy) == {i \in ClosedRows : trade_log[i].strategy = strategy}

\* C20: detect_decay(strategy, recent_window, baseline_window) returns
\* has_enough_data = false, and no recent or baseline summary, whenever the
\* strategy has fewer than recent_window + baseline_window closed trades.
C20_NotEnoughData ==
    [][(/\ IsDetectDecayStep
        /\ Cardinality(ClosedOf(call'.strategy))
              < call'.recent_window + call'.baseline_window) =>
        /\ ret'[1].has_enough_data = FALSE
        /\ "recent" \notin DOMAIN ret'[1]
        /\ "baseline" \notin DOMAIN ret'[1]]_vars

\* C26: on a store with no closed trade, empty or holding open trades only,
\* every read query returns a value: summary returns total_trades = 0 with
\* every statistic equal to 0, by_regime an empty mapping, recent_trades an
\* empty sequence, and detect_decay a report with has_enough_data = false.
C26_ReadsOfSparseStore ==
    [][(IsAnalyzerStep /\ ClosedRows = {}) =>
        /\ ret' # NULL
        /\ call'.op = "summary" => ret'[1] = ZeroSummary
        /\ call'.op = "by_regime" => DOMAIN ret'[1] = {}
        /\ call'.op = "recent_trades" => Len(ret'[1]) = 0
        /\ call'.op = "detect_decay" =>
              /\ ret'[1].has_enough_data = FALSE
              /\ ret'[1].total_closed_trades = 0]_vars

\* by_regime() returned the empty mapping on a store that holds two open
\* trades and no closed one
C26_Witness ==
    /\ call.op = "by_regime"
    /\ ret # NULL
    /\ DOMAIN ret[1] = {}
    /\ Cardinality(Rows) = 2
    /\ ClosedRows = {}

\* C24 as stated: when detect_decay reports has_enough_data = false, the
\* report carries the number of closed trades of the strategy, and as needed
\* the number of closed trades still missing to reach recent_window +
\* baseline_window.
C24_NeededIsRemaining ==
    [][(IsDetectDecayStep /\ ~ret'[1].has_enough_data) =>
        /\ ret'[1].total_closed_trades = Cardinality(ClosedOf(call'.strategy))
        /\ ret'[1].needed = call'.recent_window + call'.baseline_window
                                - Cardinality(ClosedOf(call'.strategy))]_vars

\* C24, amended: when detect_decay reports has_enough_data = false, the
\* report carries the number of closed trades of the strategy, and as needed
\* the total recent_window + baseline_window, whatever the number of closed
\* trades already stored.
C24_NeededIsTotal ==
    [][(IsDetectDecayStep /\ ~ret'[1].has_enough_data) =>
        /\ ret'[1].total_closed_trades = Cardinality(ClosedOf(call'.strategy))
        /\ ret'[1].needed = call'.recent_window + call'.baseline_window]_vars

\* detect_decay(strat_a, 2, 1) with one closed trade of strat_a and one of
\* strat_b: one trade counted, needed is 3 although 2 more would do
C24_Witness ==
    /\ call.op = "detect_decay"
    /\ call.strategy = "strat_a"
    /\ call.recent_window = 2
    /\ call.baseline_window = 1
    /\ Cardinality(ClosedOf("strat_a")) = 1
    /\ Cardinality(ClosedOf("strat_b")) = 1
    /\ ret # NULL
    /\ ~ret[1].has_enough_data
    /\ ret[1].total_closed_trades = 1
    /\ ret[1].needed = 3

----------------------------------------------------------------------------
(* Decay rules: one strategy, trades closed one after the other            *)

\* with an entry price of 4: pnl_percent -50, 25 and 50
RulesExitPriceInputs == {2, 5, 6}

\* the caller's clock: later calls carry later timestamps
Clock == 1 + Len(trade_log) + Cardinality(ClosedRows)

RulesLogEntry ==
    /\ Len(trade_log) < MaxTrades
    /\ \E trade_id \in StatsTradeIdInputs, pair \in PairInputs,
       strategy \in StrategyInputs, entry_time \in {Clock},
       entry_price \in EntryPriceInputs, indicators \in EntryIndicatorInputs,
       regime \in SnapshotRegimeInputs :
        LogEntry(Recorder, trade_id, pair, strategy, entry_time, entry_price,
                 indicators, regime)

RulesLogExit ==
    \E trade_id \in StatsTradeIdInputs, exit_time \in {Clock},
       exit_price \in RulesExitPriceInputs, exit_reason \in ExitReasonInputs,
       indicators \in ExitIndicatorInputs, regime \in SnapshotRegimeInputs,
       entry_price \in EntryPriceInputs, duration_minutes \in DurationInputs :
        LogExit(Recorder, trade_id, exit_time, exit_price, exit_reason,
                indicators, regime, entry_price, duration_minutes)

RulesDetectDecay ==
    \E strategy \in StrategyInputs, recent_window \in WindowInputs,
       baseline_window \in WindowInputs :
        DetectDecay(strategy, recent_window, baseline_window)

NextRules == RulesLogEntry \/ RulesLogExit \/ RulesDetectDecay

SpecRules == Init /\ [][NextRules]_vars

\* the three conditions, read off the two summaries of a report
Condition1(report) == report.recent.win_rate - report.baseline.win_rate < -1500
Condition2(report) ==
    report.baseline.expectancy_pct > 0 /\ report.recent.expectancy_pct < 0
Condition3(report) ==
    /\ ~report.recent.profit_factor.inf
    /\ report.recent.profit_factor.val < 10000
    /\ \/ report.baseline.profit_factor.inf
       \/ report.baseline.profit_factor.val >= 10000

UniformPnl(strategy, p) == \A i \in ClosedOf(strategy) : PnlOf(i) = p

\* C23: when every closed trade of a strategy has the same positive
\* pnl_percent and there are at least recent_window + baseline_window of
\* them, detect_decay returns has_enough_data = true and decay_detected =
\* false.
C23_UniformProfitNoDecay ==
    [][(/\ IsDetectDecayStep
        /\ Cardinality(ClosedOf(call'.strategy))
              >= call'.recent_window + call'.baseline_window
        /\ \E p \in {PnlOf(i) : i \in ClosedOf(call'.strategy)} :
              p > 0 /\ UniformPnl(call'.strategy, p)) =>
        /\ ret'[1].has_enough_data
        /\ ret'[1].decay_detected = FALSE]_vars

\* detect_decay with windows 2 and 2 over four closed trades of pnl_percent
\* 50 each: both windows have profit_factor +infinity
C23_Witness ==
    /\ call.op = "detect_decay"
    /\ call.recent_window = 2
    /\ call.baseline_window = 2
    /\ Cardinality(ClosedOf(call.strategy)) = 4
    /\ UniformPnl(call.strategy, 50)
    /\ ret # NULL
    /\ ret[1].has_enough_data
    /\ ~ret[1].decay_detected
    /\ ret[1].recent.profit_factor = Infinite
    /\ ret[1].baseline.profit_factor = Infinite

----------------------------------------------------------------------------
(* Decay windows: trades closed at equal or at different times             *)

WindowExitTimeInputs == {2, 3}

WindowsLogEntry ==
    /\ Len(trade_log) < MaxTrades
    /\ \E trade_id \in StatsTradeIdInputs, pair \in PairInputs,
       strategy \in StrategyInputs, entry_time \in EntryTimeInputs,
       entry_price \in EntryPriceInputs, indicators \in EntryIndicatorInputs,
       regime \in SnapshotRegimeInputs :
        LogEntry(Recorder, trade_id, pair, strategy, entry_time, entry_price,
                 indicators, regime)

WindowsLogExit ==
    \E trade_id \in StatsTradeIdInputs, exit_time \in WindowExitTimeInputs,
       exit_price \in ExitPriceInputs, exit_reason \in ExitReasonInputs,
       indicators \in ExitIndicatorInputs, regime \in SnapshotRegimeInputs,
       entry_price \in EntryPriceInputs, duration_minutes \in DurationInputs :
        LogExit(Recorder, trade_id, exit_time, exit_price, exit_reason,
                indicators, regime, entry_price, duration_minutes)

WindowsDetectDecay ==
    \E strategy \in StrategyInputs, recent_window \in WindowInputs,
       baseline_window \in WindowInputs :
        DetectDecay(strategy, recent_window, baseline_window)

NextWindows == WindowsLogEntry \/ WindowsLogExit \/ WindowsDetectDecay

SpecWindows == Init /\ [][NextWindows]_vars

\* the orders (of row indices) in which the SELECT of detect_decay(strategy)
\* may fetch the rows
FetchedBy(strategy) ==
    ByExitTimeDesc(trade_log, {i \in Rows : DecayWhere(trade_log[i], strategy)})

ExitTimeOf(i) == trade_log[i].exit_time[1]
Range(f) == {f[k] : k \in DOMAIN f}

\* C22 as stated: after a comparison by detect_decay, and whatever the order in
\* which trades of equal exit_time were fetched, the recent set is the
\* recent_window closed trades of the strategy with the latest exit_time, the
\* baseline set is the next baseline_window trades in descending exit_time
\* order, the two sets share no trade, and every baseline trade has an
\* exit_time strictly earlier than that of every recent trade.
C22_WindowsStrictlyOlder ==
    (call.op = "detect_decay" /\ ret[1].has_enough_data) =>
        \A f \in FetchedBy(call.strategy) :
            LET recent == Range(RecentRows(f, call.recent_window))
                baseline == Range(BaselineRows(f, call.recent_window, call.baseline_window))
            IN  /\ Cardinality(recent) = call.recent_window
                /\ Cardinality(baseline) = call.baseline_window
                /\ recent \cap baseline = {}
                /\ \A i \in ClosedOf(call.strategy) \ recent :
                      \A r \in recent : ExitTimeOf(i) <= ExitTimeOf(r)
                /\ \A b \in baseline, r \in recent : ExitTimeOf(b) < ExitTimeOf(r)

\* C22, amended: after a comparison by detect_decay, and whatever the order in
\* which trades of equal exit_time were fetched, the recent set is
\* recent_window closed trades of the strategy, none of them closed earlier
\* than a closed trade of the strategy left out of it; the baseline set is
\* the next baseline_window trades in descending exit_time order, or all the
\* remaining ones when fewer remain; the two sets share no trade; no baseline
\* trade has a later exit_time than a recent trade or an earlier one than a
\* trade left out of both sets. Trades with equal exit_time fall on either
\* side of a window's edge.
C22_WindowsNotNewer ==
    (call.op = "detect_decay" /\ ret[1].has_enough_data) =>
        \A f \in FetchedBy(call.strategy) :
            LET recent == Range(RecentRows(f, call.recent_window))
                baseline == Range(BaselineRows(f, call.recent_window, call.baseline_window))
                closed == ClosedOf(call.strategy)
            IN  /\ recent \cup baseline \subseteq closed
                /\ Cardinality(recent) = call.recent_window
                /\ Cardinality(baseline) =
                      Min(call.baseline_window, Cardinality(closed) - call.recent_window)
                /\ recent \cap baseline = {}
                /\ \A i \in closed \ recent :
                      \A r \in recent : ExitTimeOf(i) <= ExitTimeOf(r)
                /\ \A i \in closed \ (recent \cup baseline) :
                      \A b \in baseline : ExitTimeOf(i) <= ExitTimeOf(b)
                /\ \A b \in baseline, r \in recent : ExitTimeOf(b) <= ExitTimeOf(r)

\* detect_decay(strategy, 1, 2) compared three of the four closed trades of
\* the strategy, three of which were closed at the same time, before the
\* fourth
C22_Witness ==
    /\ call.op = "detect_decay"
    /\ call.recent_window = 1
    /\ call.baseline_window = 2
    /\ ret # NULL
    /\ ret[1].has_enough_data
    /\ Cardinality(ClosedOf(call.strategy)) = 4
    /\ Cardinality({i \in ClosedOf(call.strategy) : ExitTimeOf(i) = 2}) = 3

----------------------------------------------------------------------------
(* Latest trades: trades of two strategies closed at equal or different    *)
(* times, listed with and without a strategy filter                        *)

RecentLimitInputs == {-1, 0, 1, 2}
RecentStrategyArgs == {NULL, Some(""), Some("strat_a")}

RecentLogEntry ==
    /\ Len(trade_log) < MaxRecent
    /\ \E trade_id \in StatsTradeIdInputs, pair \in PairInputs,
       strategy \in FilterStrategyInputs, entry_time \in EntryTimeInputs,
       entry_price \in EntryPriceInputs, indicators \in EntryIndicatorInputs,
       regime \in SnapshotRegimeInputs :
        LogEntry(Recorder, trade_id, pair, strategy, entry_time, entry_price,
                 indicators, regime)

RecentLogExit ==
    \E trade_id \in StatsTradeIdInputs, exit_time \in WindowExitTimeInputs,
       exit_price \in ExitPriceInputs, exit_reason \in ExitReasonInputs,
       indicators \in ExitIndicatorInputs, regime \in SnapshotRegimeInputs,
       entry_price \in EntryPriceInputs, duration_minutes \in DurationInputs :
        LogExit(Recorder, trade_id, exit_time, exit_price, exit_reason,
                indicators, regime, entry_price, duration_minutes)

RecentRecentTrades ==
    \E n \in RecentLimitInputs, strategy \in RecentStrategyArgs :
        RecentTrades(n, strategy)

NextRecent == RecentLogEntry \/ RecentLogExit \/ RecentRecentTrades

SpecRecent == Init /\ [][NextRecent]_vars

\* the closed rows that pass the strategy filter of a read query: all of
\* them when the filter is absent or empty
MatchingRecent(strategy) ==
    {i \in ClosedRows : IsNonEmpty(strategy) => trade_log[i].strategy = strategy[1]}

\* C27: a call recent_trades(n, strategy) with n >= 0 has returned min(n,
\* number of closed trades that pass the strategy filter) records, each a
\* different closed trade that passes the filter, in descending order of
\* exit_time, and no trade that passes the filter and is left out has a
\* later exit_time than a returned one.
C27_RecentTrades ==
    (call.op = "recent_trades" /\ call.n >= 0) =>
        LET out == ret[1]
            matching == MatchingRecent(call.strategy)
            returned == {i \in matching : \E k \in DOMAIN out : out[k] = trade_log[i]}
        IN  /\ Len(out) = Min(call.n, Cardinality(matching))
            /\ Cardinality(returned) = Len(out)
            /\ \A k \in DOMAIN out : \E i \in matching : out[k] = trade_log[i]
            /\ \A k, l \in DOMAIN out :
                  k < l => out[k].exit_time[1] >= out[l].exit_time[1]
            /\ \A i \in matching \ returned :
                  \A k \in DOMAIN out : ExitTimeOf(i) <= out[k].exit_time[1]

\* recent_trades(2, "strat_a") returned two of the three closed trades of
\* strat_a, the one left out being the oldest
C27_Witness ==
    /\ call.op = "recent_trades"
    /\ call.n = 2
    /\ call.strategy = Some("strat_a")
    /\ Cardinality(MatchingRecent(Some("strat_a"))) = 3
    /\ ret # NULL
    /\ Len(ret[1]) = 2
    /\ ret[1][1].exit_time = Some(3)
    /\ \E i \in ClosedRows : ExitTimeOf(i) = 2 /\ \A k \in 1..2 : ret[1][k] # trade_log[i]

----------------------------------------------------------------------------
(* Regime classification: classify_volatility and classify_trend are pure  *)
(* functions of floats. A float is not-a-number, an infinity or a rational *)
(* number; None is NULL.                                                   *)

NaN == [kind |-> "nan", val |-> Rat(0, 1)]
PosInf == [kind |-> "inf", val |-> Rat(1, 1)]
NegInf == [kind |-> "inf", val |-> Rat(-1, 1)]
Num(n, d) == [kind |-> "num", val |-> Rat(n, d)]

\* np.isnan(x)
IsNaN(x) == x.kind = "nan"

RLt(a, b) == a.n * b.d < b.n * a.d

\* x < y on floats: False when either is not-a-number
FLt(x, y) ==
    IF IsNaN(x) \/ IsNaN(y) THEN FALSE
    ELSE IF x.kind = "inf" THEN x.val.n < 0 /\ ~(y.kind = "inf" /\ y.val.n < 0)
    ELSE IF y.kind = "inf" THEN y.val.n > 0
    ELSE RLt(x.val, y.val)

\* faulty variant: 20 itself is ranging, 30 itself is weak_trend
ClassifyTrendClosedAbove(adx) ==
    IF adx = NULL \/ IsNaN(adx[1]) THEN "unknown"
    ELSE IF ~FLt(Num(20, 1), adx[1]) THEN "ranging"
    ELSE IF ~FLt(Num(30, 1), adx[1]) THEN "weak_trend"
    ELSE "strong_trend"

\* classify_trend(adx)
ClassifyTrendOf(adx) ==
    IF adx = NULL \/ IsNaN(adx[1]) THEN "unknown"
    ELSE IF FLt(adx[1], Num(20, 1)) THEN "ranging"
    ELSE IF FLt(adx[1], Num(30, 1)) THEN "weak_trend"
    ELSE "strong_trend"

\* the values of a list of numbers in ascending order
RECURSIVE InsertAsc(_, _)
InsertAsc(x, s) ==
    IF s = <<>> THEN <<x>>
    ELSE IF RLt(Head(s), x) THEN <<Head(s)>> \o InsertAsc(x, Tail(s))
    ELSE <<x>> \o s

RECURSIVE SortAsc(_)
SortAsc(s) == IF s = <<>> THEN <<>> ELSE InsertAsc(Head(s), SortAsc(Tail(s)))

\* np.percentile(a, q), linear interpolation between the two nearest ranks;
\* not-a-number when a holds a not-a-number
Percentile(a, q) ==
    IF \E k \in DOMAIN a : IsNaN(a[k]) THEN NaN
    ELSE LET sorted == SortAsc([k \in DOMAIN a |-> a[k].val])
             n == Len(sorted)
             lo == ((n - 1) * q) \div 100
             t == Rat(((n - 1) * q) % 100, 100)
             below == sorted[lo + 1]
             above == sorted[Min(lo + 2, n)]
             v == RAdd(below, RMul(RSub(above, below), t))
         IN  [kind |-> "num", val |-> v]

\* faulty variant: a history of one observation is classified
TooShortEmptyOnly(bb_width_history) == bb_width_history = <<>>

\* not bb_width_history or len(bb_width_history) < 2
TooShort(bb_width_history) ==
    bb_width_history = <<>> \/ Len(bb_width_history) < 2

\* faulty variant: a value equal to a threshold leaves the medium bucket
BucketInclusive(bb_width, low_threshold, high_threshold) ==
    IF ~FLt(low_threshold, bb_width) /\ ~IsNaN(bb_width) /\ ~IsNaN(low_threshold) THEN "low"
    ELSE IF ~FLt(bb_width, high_threshold) /\ ~IsNaN(bb_width) /\ ~IsNaN(high_threshold) THEN "high"
    ELSE "medium"

\* if bb_width < low_threshold ... elif bb_width > high_threshold ... else
Bucket(bb_width, low_threshold, high_threshold) ==
    IF FLt(bb_width, low_threshold) THEN "low"
    ELSE IF FLt(high_threshold, bb_width) THEN "high"
    ELSE "medium"

\* classify_volatility(bb_width, bb_width_history, low_percentile, high_percentile)
ClassifyVolatilityOf(bb_width, bb_width_history, low_percentile, high_percentile) ==
    IF TooShort(bb_width_history) THEN "unknown"
    ELSE Bucket(bb_width, Percentile(bb_width_history, low_percentile),
                Percentile(bb_width_history, high_percentile))

\* the arguments of the classifier
BbWidthInputs == {NaN, PosInf, NegInf, Num(1, 1), Num(2, 1), Num(3, 1)}
HistoryValueInputs == {NaN, Num(1, 1), Num(2, 1), Num(4, 1)}
HistoryInputs == UNION {[1..n -> HistoryValueInputs] : n \in 0..MaxHistory}
PercentileInputs == {<<25, 75>>, <<50, 50>>, <<0, 100>>}
AdxInputs == {NULL, Some(NaN), Some(PosInf), Some(NegInf), Some(Num(39, 2)),
              Some(Num(20, 1)), Some(Num(59, 2)), Some(Num(30, 1))}

\* the classifier is called with arguments taken from these sets
InitRegime ==
    /\ trade_log = <<>>
    /\ regime_snapshots = <<>>
    /\ pc = [l \in Loggers |-> "idle"]
    /\ conn = [c \in Components |-> NoConn]
    /\ call = NoCall
    /\ ret = NULL
    /\ \E bb_width \in BbWidthInputs, bb_width_history \in HistoryInputs,
          percentiles \in PercentileInputs, adx \in AdxInputs :
          pend = [ bb_width |-> bb_width,
                   bb_width_history |-> bb_width_history,
                   low_percentile |-> percentiles[1],
                   high_percentile |-> percentiles[2],
                   adx |-> adx ]

ClassifyVolatility ==
    /\ call' = [op |-> "classify_volatility", tick |-> ~call.tick]
    /\ ret' = Some(ClassifyVolatilityOf(pend.bb_width, pend.bb_width_history,
                                        pend.low_percentile, pend.high_percentile))
    /\ UNCHANGED <<trade_log, regime_snapshots, pc, pend, conn>>

ClassifyTrend ==
    /\ call' = [op |-> "classify_trend", tick |-> ~call.tick]
    /\ ret' = Some(ClassifyTrendOf(pend.adx))
    /\ UNCHANGED <<trade_log, regime_snapshots, pc, pend, conn>>

\* the defaults of classify_volatility, which classify_regime calls it with
DefaultLowPercentile == 25
DefaultHighPercentile == 75

\* faulty variant: the combined label names the trend first
ClassifyRegimeTrendFirst(bb_width, bb_width_history, adx) ==
    LET vol == ClassifyVolatilityOf(bb_width, bb_width_history,
                                    DefaultLowPercentile, DefaultHighPercentile)
        trend == ClassifyTrendOf(adx)
    IN  [volatility |-> vol, trend |-> trend, combined |-> trend \o "_" \o vol]

\* classify_regime(bb_width, bb_width_history, adx)
ClassifyRegimeOf(bb_width, bb_width_history, adx) ==
    LET vol == ClassifyVolatilityOf(bb_width, bb_width_history,
                                    DefaultLowPercentile, DefaultHighPercentile)
        trend == ClassifyTrendOf(adx)
        combined == vol \o "_" \o trend
    IN  [volatility |-> vol, trend |-> trend, combined |-> combined]

ClassifyRegime ==
    /\ call' = [op |-> "classify_regime", tick |-> ~call.tick]
    /\ ret' = Some(ClassifyRegimeOf(pend.bb_width, pend.bb_width_history, pend.adx))
    /\ UNCHANGED <<trade_log, regime_snapshots, pc, pend, conn>>

NextRegime == ClassifyVolatility \/ ClassifyTrend \/ ClassifyRegime

SpecRegime == InitRegime /\ [][NextRegime]_vars

TrendTags == {"ranging", "weak_trend", "strong_trend", "unknown"}

\* C28: classify_trend returns a tag for every input: unknown for an absent
\* or not-a-number adx, ranging for adx < 20, weak_trend for 20 <= adx < 30
\* (20 itself is weak_trend), strong_trend for adx >= 30 (30 itself is
\* strong_trend).
C28_ClassifyTrendTotal ==
    (call.op = "classify_trend") =>
        LET adx == pend.adx
            tag == ret[1]
            number == adx # NULL /\ adx[1].kind # "nan"
            below20 == \/ adx[1] = NegInf
                       \/ adx[1].kind = "num" /\ adx[1].val.n < 20 * adx[1].val.d
            below30 == \/ adx[1] = NegInf
                       \/ adx[1].kind = "num" /\ adx[1].val.n < 30 * adx[1].val.d
        IN  /\ tag \in TrendTags
            /\ tag = "unknown" <=> ~number
            /\ tag = "ranging" <=> (number /\ below20)
            /\ tag = "weak_trend" <=> (number /\ ~below20 /\ below30)
            /\ tag = "strong_trend" <=> (number /\ ~below30)

\* classify_trend(20) returned weak_trend
C28_Witness ==
    /\ call.op = "classify_trend"
    /\ pend.adx = Some(Num(20, 1))
    /\ ret = Some("weak_trend")

VolatilityTags == {"low", "medium", "high"}

\* C29: classify_volatility returns unknown for every history with fewer
\* than 2 observations, empty or of a single value, whatever the current
\* value is, and one of low, medium, high for every history with 2 or more
\* observations.
C29_ShortHistoryUnknown ==
    (call.op = "classify_volatility") =>
        /\ Len(pend.bb_width_history) < 2 => ret[1] = "unknown"
        /\ Len(pend.bb_width_history) >= 2 => ret[1] \in VolatilityTags

\* classify_volatility(2, [2]) returned unknown: the single observation
\* equals the current value
C29_Witness ==
    /\ call.op = "classify_volatility"
    /\ pend.bb_width = Num(2, 1)
    /\ pend.bb_width_history = <<Num(2, 1)>>
    /\ ret = Some("unknown")

\* the q-th percentile of a list of numbers, from its definition: with the
\* values in ascending order at ranks 0 .. n - 1, the value at rank
\* (n - 1) * q / 100, a rank between two integers taking the value that lies
\* in proportion between its two neighbours
PercentileByRank(a, q) ==
    LET n == Len(a)
        ranked == CHOOSE f \in [0..(n - 1) -> {a[k].val : k \in DOMAIN a}] :
                     /\ \A i, j \in 0..(n - 1) : i < j => ~RLt(f[j], f[i])
                     /\ \A v \in {a[k].val : k \in DOMAIN a} :
                           Cardinality({i \in 0..(n - 1) : f[i] = v})
                              = Cardinality({k \in DOMAIN a : a[k].val = v})
        lo == CHOOSE i \in 0..(n - 1) : i * 100 <= (n - 1) * q /\ (n - 1) * q < (i + 1) * 100
        hi == IF lo * 100 = (n - 1) * q THEN lo ELSE lo + 1
        num == (n - 1) * q - lo * 100
    IN  \* ranked[lo] + (ranked[hi] - ranked[lo]) * num / 100
        RAdd(ranked[lo], RMul(RSub(ranked[hi], ranked[lo]), Rat(num, 100)))

\* x < y for a current value and a percentile of the history
StrictlyBelow(x, a, q) ==
    /\ ~IsNaN(x)
    /\ \A k \in DOMAIN a : ~IsNaN(a[k])
    /\ \/ x = NegInf
       \/ x.kind = "num" /\ RLt(x.val, PercentileByRank(a, q))

StrictlyAbove(x, a, q) ==
    /\ ~IsNaN(x)
    /\ \A k \in DOMAIN a : ~IsNaN(a[k])
    /\ \/ x = PosInf
       \/ x.kind = "num" /\ RLt(PercentileByRank(a, q), x.val)

\* C30: with a history of at least 2 observations, classify_volatility
\* returns low exactly when the current value is strictly below the
\* low_percentile-th percentile of the history, high exactly when it is
\* strictly above the high_percentile-th percentile, and medium otherwise: a
\* value equal to either threshold is medium.
C30_VolatilityBuckets ==
    (call.op = "classify_volatility" /\ Len(pend.bb_width_history) >= 2) =>
        LET below == StrictlyBelow(pend.bb_width, pend.bb_width_history, pend.low_percentile)
            above == StrictlyAbove(pend.bb_width, pend.bb_width_history, pend.high_percentile)
        IN  /\ ret[1] = "low" <=> below
            /\ ret[1] = "high" <=> above
            /\ ret[1] = "medium" <=> (~below /\ ~above)

\* classify_volatility(2, [4, 1, 2], 50, 50) returned medium: the current
\* value equals both thresholds, the median 2 of an unsorted history
C30_Witness ==
    /\ call.op = "classify_volatility"
    /\ pend.bb_width = Num(2, 1)
    /\ pend.bb_width_history = <<Num(4, 1), Num(1, 1), Num(2, 1)>>
    /\ pend.low_percentile = 50
    /\ pend.high_percentile = 50
    /\ ret = Some("medium")

\* the tags of a regime label
AllVolatilityTags == VolatilityTags \cup {"unknown"}
CombinedLabels == {v \o "_" \o t : v \in AllVolatilityTags, t \in TrendTags}

\* C31: classify_regime returns the volatility tag that classify_volatility
\* gives for the same bb_width and history (with its default percentiles),
\* the trend tag that classify_trend gives for the same adx, and a combined
\* label that is volatility, "_", trend joined; the combined label is one of
\* 16 and belongs to no other pair of tags.
C31_ClassifyRegimeComposes ==
    (call.op = "classify_regime") =>
        LET result == ret[1]
        IN  /\ DOMAIN result = {"volatility", "trend", "combined"}
            /\ result.volatility =
                  ClassifyVolatilityOf(pend.bb_width, pend.bb_width_history, 25, 75)
            /\ result.trend = ClassifyTrendOf(pend.adx)
            /\ result.volatility \in AllVolatilityTags
            /\ result.trend \in TrendTags
            /\ result.combined = result.volatility \o "_" \o result.trend
            /\ result.combined \in CombinedLabels
            /\ Cardinality(CombinedLabels) = 16
            /\ \A v \in AllVolatilityTags, t \in TrendTags :
                  v \o "_" \o t = result.combined =>
                     v = result.volatility /\ t = result.trend

\* classify_regime(1, [4, 2, 4], 20) returned low_weak_trend
C31_Witness ==
    /\ call.op = "classify_regime"
    /\ pend.bb_width = Num(1, 1)
    /\ pend.bb_width_history = <<Num(4, 1), Num(2, 1), Num(4, 1)>>
    /\ pend.adx = Some(Num(20, 1))
    /\ ret = Some([volatility |-> "low", trend |-> "weak_trend",
                   combined |-> "low_weak_trend"])


----------------------------------------------------------------------------
(* Decay rules on a recent window that all but breaks even                 *)

\* with an entry price of 100: pnl_percent -30000, -25, 50 and 29999
NearEvenEntryPriceInputs == {100}
NearEvenExitPriceInputs == {-29900, 75, 150, 30099}

NearEvenLogEntry ==
    /\ Len(trade_log) < MaxTrades
    /\ \E trade_id \in StatsTradeIdInputs, pair \in PairInputs,
       strategy \in StrategyInputs, entry_time \in {Clock},
       entry_price \in NearEvenEntryPriceInputs, indicators \in EntryIndicatorInputs,
       regime \in SnapshotRegimeInputs :
        LogEntry(Recorder, trade_id, pair, strategy, entry_time, entry_price,
                 indicators, regime)

NearEvenLogExit ==
    \E trade_id \in StatsTradeIdInputs, exit_time \in {Clock},
       exit_price \in NearEvenExitPriceInputs, exit_reason \in ExitReasonInputs,
       indicators \in ExitIndicatorInputs, regime \in SnapshotRegimeInputs,
       entry_price \in NearEvenEntryPriceInputs, duration_minutes \in DurationInputs :
        LogExit(Recorder, trade_id, exit_time, exit_price, exit_reason,
                indicators, regime, entry_price, duration_minutes)

NearEvenDetectDecay ==
    \E strategy \in StrategyInputs, recent_window \in WindowInputs,
       baseline_window \in WindowInputs :
        DetectDecay(strategy, recent_window, baseline_window)

NextNearEven == NearEvenLogEntry \/ NearEvenLogExit \/ NearEvenDetectDecay

SpecNearEven == Init /\ [][NextNearEven]_vars

\* C37 as stated: whenever a report of detect_decay has a positive baseline
\* expectancy_pct and a negative recent expectancy_pct (rule 2), its baseline
\* profit_factor is >= 1.0 and its recent profit_factor is < 1.0, so that
\* rule 3 holds of it as well.
C37_Rule2ImpliesRule3 ==
    (/\ call.op = "detect_decay"
     /\ ret # NULL
     /\ ret[1].has_enough_data
     /\ Condition2(ret[1])) =>
        /\ AtLeastOne(ret[1].baseline.profit_factor)
        /\ BelowOne(ret[1].recent.profit_factor)
        /\ Condition3(ret[1])


\* C37, amended: whenever a report of detect_decay has a positive baseline
\* expectancy_pct and a negative recent expectancy_pct (rule 2), its baseline
\* profit_factor is >= 1.0 (or infinite) and its recent profit_factor is
\* finite and <= 1.0; rule 3 holds of it as well unless the recent
\* profit_factor, rounded to 4 places, is exactly 1.0.
C37_Rule2BoundsProfitFactors ==
    (/\ call.op = "detect_decay"
     /\ ret # NULL
     /\ ret[1].has_enough_data
     /\ Condition2(ret[1])) =>
        LET recent == ret[1].recent.profit_factor
            baseline == ret[1].baseline.profit_factor
        IN  /\ baseline.inf \/ baseline.val >= 10000
            /\ ~recent.inf
            /\ recent.val <= 10000
            /\ Condition3(ret[1]) <=> recent.val # 10000

\* detect_decay flags decay for the expectancy alone: the recent window lost
\* on average, and its profit factor 29999 / 30000 is reported as 1.0
C37_Witness ==
    /\ call.op = "detect_decay"
    /\ ret # NULL
    /\ ret[1].has_enough_data
    /\ Condition2(ret[1])
    /\ ~Condition3(ret[1])
    /\ ret[1].recent.expectancy_pct = -5000
    /\ ret[1].recent.profit_factor = Finite(10000)
    /\ ret[1].recommendation = <<"DECAY DETECTED", "Expectancy turned negative">>


----------------------------------------------------------------------------
(* The two summary implementations                                         *)

\* the keys that summary() and _compute_summary() both return
SummaryFields == {"total_trades", "win_rate", "avg_win_pct", "avg_loss_pct",
                  "expectancy_pct", "profit_factor"}

\* the pnl_percent of the closed rows, in table order
ClosedPnls ==
    LET closed == SelectSeq(trade_log, LAMBDA r : r.exit_time # NULL)
    IN  [k \in DOMAIN closed |-> closed[k].pnl_percent[1]]

\* C35: over a non-empty set of closed trades, the total_trades, win_rate,
\* avg_win_pct, avg_loss_pct, expectancy_pct and profit_factor that summary()
\* returns equal those that _compute_summary returns for the list of their
\* pnl_percent values, in any order detect_decay may fetch them.
C35_SummariesAgree ==
    (call.op = "summary" /\ ClosedRows # {}) =>
        \A f \in ByExitTimeDesc(trade_log, ClosedRows) :
            LET pnls == [k \in DOMAIN f |-> PnlOf(f[k])]
                computed == ComputeSummary(pnls)
            IN  \A key \in SummaryFields : ret[1][key] = computed[key]

\* summary() over a win of 50, a loss of 50 and a trade that broke even
C35_Witness ==
    /\ call.op = "summary"
    /\ Cardinality(ClosedRows) = 3
    /\ {PnlOf(i) : i \in ClosedRows} = {-50, 0, 50}
    /\ ret[1].avg_loss_pct = -250000
    /\ ret[1].expectancy_pct = 0
    /\ ret[1].profit_factor = Finite(10000)

\* C36: over a non-empty set of closed trades, the expectancy of summary()
\* before rounding, win_rate * avg_win + (1 - win_rate) * avg_loss, is the
\* mean of pnl_percent: expectancy * total_trades = sum of pnl_percent; the
\* expectancy_pct returned is that value rounded to four places.
C36_ExpectancyIsMean ==
    (call.op = "summary" /\ ClosedRows # {}) =>
        LET expectancy == Expectancy(ClosedPnls)
        IN  /\ ret[1].total_trades = Len(ClosedPnls)
            /\ expectancy.n * ret[1].total_trades = SumSeq(ClosedPnls) * expectancy.d
            /\ ret[1].expectancy_pct = Round4(expectancy)

\* summary() over two wins of 50 and a loss of 50: the mean is 50 / 3
C36_Witness ==
    /\ call.op = "summary"
    /\ ClosedPnls \in {<<50, 50, -50>>, <<50, -50, 50>>, <<-50, 50, 50>>}
    /\ ret[1].wins = 2
    /\ ret[1].expectancy_pct = 166667


----------------------------------------------------------------------------
(* Open records of a trade_id                                              *)

\* C33: in every state reached by log_entry and log_exit calls, the open
\* records of a trade_id are a suffix of that id's records in insertion
\* order: a record inserted after an open record of the same trade_id is
\* open too, so if any record of a trade_id is open the newest one, which
\* log_exit looks up for regime_changed, is open.
C33_OpenRowsAreSuffix ==
    \A i \in Rows : \A j \in Rows :
        (/\ i < j
         /\ trade_log[i].trade_id = trade_log[j].trade_id
         /\ trade_log[i].exit_time = NULL) =>
            /\ trade_log[j].exit_time = NULL
            /\ trade_log[SelectLastRow(trade_log, trade_log[i].trade_id)].exit_time = NULL

\* a trade_id entered, closed and entered again: its one open record is the
\* newest, after a closed one
C33_Witness ==
    /\ call.op = "log_entry"
    /\ Len(trade_log) = 2
    /\ trade_log[1].trade_id = trade_log[2].trade_id
    /\ trade_log[1].exit_time # NULL
    /\ trade_log[2].exit_time = NULL
    /\ SelectLastRow(trade_log, trade_log[1].trade_id) = 2


----------------------------------------------------------------------------
(* Isolation: what a decay report of one strategy depends on               *)

IsolationLogEntry ==
    /\ Len(trade_log) < MaxIsolated
    /\ \E trade_id \in StatsTradeIdInputs, pair \in PairInputs,
       strategy \in FilterStrategyInputs, entry_time \in {Clock},
       entry_price \in EntryPriceInputs, indicators \in EntryIndicatorInputs,
       regime \in SnapshotRegimeInputs :
        LogEntry(Recorder, trade_id, pair, strategy, entry_time, entry_price,
                 indicators, regime)

IsolationLogExit ==
    \E trade_id \in StatsTradeIdInputs, exit_time \in {Clock},
       exit_price \in DecayExitPriceInputs, exit_reason \in ExitReasonInputs,
       indicators \in ExitIndicatorInputs, regime \in SnapshotRegimeInputs,
       entry_price \in EntryPriceInputs, duration_minutes \in DurationInputs :
        LogExit(Recorder, trade_id, exit_time, exit_price, exit_reason,
                indicators, regime, entry_price, duration_minutes)

\* the strategy whose report is looked at
IsolationStrategyInputs == {"strat_a"}

IsolationDetectDecay ==
    \E strategy \in IsolationStrategyInputs, recent_window \in WindowInputs,
       baseline_window \in WindowInputs :
        DetectDecay(strategy, recent_window, baseline_window)

NextIsolation ==
    IsolationLogEntry \/ IsolationLogExit \/ DoLogRegimeSnapshot \/ IsolationDetectDecay

SpecIsolation == Init /\ [][NextIsolation]_vars

\* the closed trades of a strategy, in insertion order, and nothing else
OwnClosedTrades(strategy) ==
    SelectSeq(trade_log, LAMBDA r : r.strategy = strategy /\ r.exit_time # NULL)

\* C34: the report of detect_decay(strategy = A) depends only on the closed
\* trades of A: the reports it can return on the store are exactly those it
\* can return on a store that holds A's closed trades alone, with no open
\* trade, no trade of another strategy and no regime snapshot, whatever was
\* logged before; so two stores that agree on A's closed trades give the
\* same reports.
C34_ReportOfOwnClosedTrades ==
    (call.op = "detect_decay") =>
        LET own == DetectDecayOn(OwnClosedTrades(call.strategy), call.strategy,
                                 call.recent_window, call.baseline_window)
        IN  /\ ret[1] \in own
            /\ DetectDecayOn(trade_log, call.strategy, call.recent_window,
                             call.baseline_window) = own
            /\ ret[1].total_closed_trades = Len(OwnClosedTrades(call.strategy))

\* detect_decay of strat_a with windows 1 and 1 on a store that holds two
\* closed trades of strat_a, a trade of strat_b logged between them and a
\* regime snapshot
C34_Witness ==
    /\ call.op = "detect_decay"
    /\ call.strategy = "strat_a"
    /\ call.recent_window = 1
    /\ call.baseline_window = 1
    /\ Len(OwnClosedTrades("strat_a")) = 2
    /\ Len(trade_log) = 3
    /\ trade_log[2].strategy = "strat_b"
    /\ regime_snapshots # <<>>
    /\ ret[1].has_enough_data
    /\ ret[1].total_closed_trades = 2


----------------------------------------------------------------------------
(* Crossings: crossed_above over a series of candles                       *)

\* x <= y and x > y on floats: False when either is not-a-number
FLe(x, y) == ~IsNaN(x) /\ ~IsNaN(y) /\ (x = y \/ FLt(x, y))
FGt(x, y) == FLt(y, x)

\* series.shift(1): each candle holds the value of the one before, the first
\* candle holds not-a-number
Shift(series) == [i \in DOMAIN series |-> IF i = 1 THEN NaN ELSE series[i - 1]]

\* a threshold is a number or a series
Scalar(x) == [scalar |-> TRUE, value |-> x]
SeriesOf(s) == [scalar |-> FALSE, value |-> s]

\* faulty variant: the candle before has to be strictly below the threshold
CrossedAboveFromBelow(series, threshold) ==
    IF threshold.scalar
    THEN [i \in DOMAIN series |->
            FGt(series[i], threshold.value) /\ FLt(Shift(series)[i], threshold.value)]
    ELSE [i \in DOMAIN series |->
            /\ FGt(series[i], threshold.value[i])
            /\ FLt(Shift(series)[i], Shift(threshold.value)[i])]

\* crossed_above(series, threshold)
CrossedAboveOf(series, threshold) ==
    IF threshold.scalar
    THEN [i \in DOMAIN series |->
            FGt(series[i], threshold.value) /\ FLe(Shift(series)[i], threshold.value)]
    ELSE [i \in DOMAIN series |->
            /\ FGt(series[i], threshold.value[i])
            /\ FLe(Shift(series)[i], Shift(threshold.value)[i])]

\* candles around the thresholds 30 and 31, and a candle with no value
CandleInputs == {NaN, Num(29, 1), Num(30, 1), Num(31, 1), Num(32, 1)}
CandleSeriesInputs == UNION {[1..n -> CandleInputs] : n \in 0..MaxCandles}

\* a number, or a series as long as the one it is compared with
CrossThresholdInputs(n) ==
    {Scalar(Num(30, 1)), Scalar(Num(31, 1)),
     SeriesOf([i \in 1..n |-> Num(30, 1)]),
     SeriesOf([i \in 1..n |-> Num(29 + i, 1)])}

InitCross ==
    /\ trade_log = <<>>
    /\ regime_snapshots = <<>>
    /\ pc = [l \in Loggers |-> "idle"]
    /\ conn = [c \in Components |-> NoConn]
    /\ call = NoCall
    /\ ret = NULL
    /\ \E series \in CandleSeriesInputs :
       \E threshold \in CrossThresholdInputs(Len(series)) :
          pend = [series |-> series, threshold |-> threshold]

CrossedAbove ==
    /\ call' = [op |-> "crossed_above", tick |-> ~call.tick]
    /\ ret' = Some(CrossedAboveOf(pend.series, pend.threshold))
    /\ UNCHANGED <<trade_log, regime_snapshots, pc, pend, conn>>

NextCross == CrossedAbove

SpecCross == InitCross /\ [][NextCross]_vars

\* C32: crossed_above(series, threshold) with a scalar threshold is true at
\* candle i exactly when series[i] > threshold and series[i-1] <= threshold;
\* it is false at the first candle, false at a candle that follows one above
\* the threshold, and never true on two consecutive candles.
C32_CrossedAboveScalar ==
    (call.op = "crossed_above" /\ pend.threshold.scalar) =>
        LET series == pend.series
            threshold == pend.threshold.value
            crossed == ret[1]
        IN  /\ DOMAIN crossed = DOMAIN series
            /\ \A i \in DOMAIN series :
                  crossed[i] <=> /\ i > 1
                                 /\ FGt(series[i], threshold)
                                 /\ FLe(series[i - 1], threshold)
            /\ series # <<>> => ~crossed[1]
            /\ \A i \in DOMAIN series :
                  (i > 1 /\ FGt(series[i - 1], threshold)) => ~crossed[i]
            /\ \A i \in DOMAIN series :
                  (i > 1 /\ crossed[i - 1]) => ~crossed[i]

\* crossed_above([30, 31, 32], 30): the series crosses at the second candle,
\* from the threshold itself, and stays above at the third
C32_Witness ==
    /\ call.op = "crossed_above"
    /\ pend.series = <<Num(30, 1), Num(31, 1), Num(32, 1)>>
    /\ pend.threshold = Scalar(Num(30, 1))
    /\ ret = Some(<<FALSE, TRUE, FALSE>>)


----------------------------------------------------------------------------
(* Signals: entry and exit over the same series                            *)

\* check_entry_long(rsi, tema, bb_middle, volume, rsi_threshold)
CheckEntryLongOf(rsi, tema, bb_middle, volume, rsi_threshold) ==
    [i \in DOMAIN rsi |->
        /\ CrossedAboveOf(rsi, Scalar(Num(rsi_threshold, 1)))[i]
        /\ FLe(tema[i], bb_middle[i])
        /\ FGt(tema[i], Shift(tema)[i])
        /\ FGt(volume[i], Num(0, 1))]

\* faulty variant: the exit does not look at the middle band
CheckExitLongAnyBand(rsi, tema, bb_middle, volume, rsi_threshold) ==
    [i \in DOMAIN rsi |->
        /\ CrossedAboveOf(rsi, Scalar(Num(rsi_threshold, 1)))[i]
        /\ FLt(tema[i], Shift(tema)[i])
        /\ FGt(volume[i], Num(0, 1))]

\* check_exit_long(rsi, tema, bb_middle, volume, rsi_threshold)
CheckExitLongOf(rsi, tema, bb_middle, volume, rsi_threshold) ==
    [i \in DOMAIN rsi |->
        /\ CrossedAboveOf(rsi, Scalar(Num(rsi_threshold, 1)))[i]
        /\ FGt(tema[i], bb_middle[i])
        /\ FLt(tema[i], Shift(tema)[i])
        /\ FGt(volume[i], Num(0, 1))]

\* the default thresholds of check_entry_long and check_exit_long
DefaultEntryThreshold == 30
DefaultExitThreshold == 70

\* rsi at and around the two thresholds, tema below, at and above a middle
\* band of 2, candles with and without volume
RsiInputs == {NaN, Num(30, 1), Num(31, 1), Num(71, 1)}
TemaInputs == {NaN, Num(1, 1), Num(2, 1), Num(3, 1)}
BbMiddleInputs == {Num(2, 1)}
VolumeInputs == {Num(0, 1), Num(1000, 1)}
SignalThresholdInputs == {DefaultEntryThreshold, DefaultExitThreshold}

InitSignals ==
    /\ trade_log = <<>>
    /\ regime_snapshots = <<>>
    /\ pc = [l \in Loggers |-> "idle"]
    /\ conn = [c \in Components |-> NoConn]
    /\ call = NoCall
    /\ ret = NULL
    /\ \E n \in 0..MaxSignalCandles :
       \E rsi \in [1..n -> RsiInputs], tema \in [1..n -> TemaInputs],
          bb_middle \in [1..n -> BbMiddleInputs], volume \in [1..n -> VolumeInputs] :
          pend = [rsi |-> rsi, tema |-> tema, bb_middle |-> bb_middle,
                  volume |-> volume]

CheckEntryLong ==
    \E rsi_threshold \in SignalThresholdInputs :
        /\ call' = [op |-> "check_entry_long", rsi_threshold |-> rsi_threshold,
                    tick |-> ~call.tick]
        /\ ret' = Some(CheckEntryLongOf(pend.rsi, pend.tema, pend.bb_middle,
                                        pend.volume, rsi_threshold))
        /\ UNCHANGED <<trade_log, regime_snapshots, pc, pend, conn>>

CheckExitLong ==
    \E rsi_threshold \in SignalThresholdInputs :
        /\ call' = [op |-> "check_exit_long", rsi_threshold |-> rsi_threshold,
                    tick |-> ~call.tick]
        /\ ret' = Some(CheckExitLongOf(pend.rsi, pend.tema, pend.bb_middle,
                                       pend.volume, rsi_threshold))
        /\ UNCHANGED <<trade_log, regime_snapshots, pc, pend, conn>>

NextSignals == CheckEntryLong \/ CheckExitLong

SpecSignals == InitSignals /\ [][NextSignals]_vars

\* the conditions of the two signals at candle i, read off the series
RsiCrossed(i, threshold) ==
    /\ i > 1
    /\ FGt(pend.rsi[i], Num(threshold, 1))
    /\ FLe(pend.rsi[i - 1], Num(threshold, 1))
TemaRising(i) == i > 1 /\ FGt(pend.tema[i], pend.tema[i - 1])
TemaFalling(i) == i > 1 /\ FLt(pend.tema[i], pend.tema[i - 1])
HasVolume(i) == FGt(pend.volume[i], Num(0, 1))

\* C38: check_entry_long fires at a candle exactly when rsi crossed above its
\* threshold, tema <= bb_middle, tema is rising and volume > 0 there;
\* check_exit_long exactly when rsi crossed above its threshold,
\* tema > bb_middle, tema is falling and volume > 0 there; over the same
\* series, whatever the two thresholds, they never fire at the same candle.
C38_EntryAndExitExclusive ==
    /\ (call.op = "check_entry_long") =>
          /\ DOMAIN ret[1] = DOMAIN pend.rsi
          /\ \A i \in DOMAIN pend.rsi :
                /\ ret[1][i] <=> /\ RsiCrossed(i, call.rsi_threshold)
                                 /\ FLe(pend.tema[i], pend.bb_middle[i])
                                 /\ TemaRising(i)
                                 /\ HasVolume(i)
                /\ \A exit_threshold \in SignalThresholdInputs :
                      ~(/\ ret[1][i]
                        /\ CheckExitLongOf(pend.rsi, pend.tema, pend.bb_middle,
                                           pend.volume, exit_threshold)[i])
    /\ (call.op = "check_exit_long") =>
          /\ DOMAIN ret[1] = DOMAIN pend.rsi
          /\ \A i \in DOMAIN pend.rsi :
                /\ ret[1][i] <=> /\ RsiCrossed(i, call.rsi_threshold)
                                 /\ FGt(pend.tema[i], pend.bb_middle[i])
                                 /\ TemaFalling(i)
                                 /\ HasVolume(i)
                /\ \A entry_threshold \in SignalThresholdInputs :
                      ~(/\ ret[1][i]
                        /\ CheckEntryLongOf(pend.rsi, pend.tema, pend.bb_middle,
                                            pend.volume, entry_threshold)[i])

\* rsi goes from 30 to 71 and so crosses both thresholds at the second
\* candle; tema rises from 1 to the middle band: the entry fires there, the
\* exit with threshold 70 does not
C38_Witness ==
    /\ call.op = "check_entry_long"
    /\ call.rsi_threshold = 30
    /\ pend.rsi = <<Num(30, 1), Num(71, 1)>>
    /\ pend.tema = <<Num(1, 1), Num(2, 1)>>
    /\ pend.volume = <<Num(1000, 1), Num(1000, 1)>>
    /\ ret = Some(<<FALSE, TRUE>>)
    /\ CrossedAboveOf(pend.rsi, Scalar(Num(70, 1))) = <<FALSE, TRUE>>
    /\ CheckExitLongOf(pend.rsi, pend.tema, pend.bb_middle, pend.volume, 70)
          = <<FALSE, FALSE>>

============================================================================
